---- MODULE Spec2Model ----
(***************************************************************************)
(* Conversational agent orchestration of the expense-tracker backend:      *)
(* the chat controller (streamChat / getChatHistory / deleteChatHistory),  *)
(* the chat service (scopeThreadId, persistUserMessage, ...), the agent    *)
(* graph (callModel, shouldContinue, tools node, shouldCallModel), the     *)
(* agent cache and the tool catalogue.                                     *)
(*                                                                         *)
(* Text is modelled as a sequence of tokens (characters for thread         *)
(* identifiers, chunks for message contents), so that '' is <<>> and       *)
(* template strings are concatenations; the topic guard reads the string   *)
(* the chunks of a user message make up character by character.            *)
(***************************************************************************)
EXTENDS Integers, Sequences, FiniteSets, TLC

\* ------------------------------------------------------------------ bounds
MaxCalls == 2       \* most tool calls the model requests in one response
MaxSteps == 3       \* supersteps one graph run may take (recursion limit)
MaxLlms == 2        \* model instances the provider factory builds
MaxClock == 3       \* ticks of the clock

\* ------------------------------------------------------------- input sets
Requests == {1, 2}                    \* POST /api/chat requests in the model
Owners == {1, 12}                     \* authenticated user ids (req.user.sub)
ScopeOwners == {1, 2, 12, 21}         \* user ids of the scoping check
ThreadChars == {"1", "-", "t"}        \* characters of raw thread names

\* A raw threadId of a request: omitted (undefined) or a string.
NoThread == [given |-> FALSE, name |-> <<>>]
Thread(s) == [given |-> TRUE, name |-> s]
ThreadNames == {NoThread, Thread(<<"t">>)}
ScopeThreadNames ==
    {NoThread, Thread(<<>>), Thread(<<"d", "e", "f", "a", "u", "l", "t">>)}
      \cup {Thread(<<a>>) : a \in ThreadChars}
      \cup {Thread(<<a, b>>) : a \in ThreadChars, b \in ThreadChars}
      \cup {Thread(<<a, b, c>>) : a \in ThreadChars, b \in ThreadChars, c \in ThreadChars}

\* User queries (already trimmed by chatQuerySchema).
QSpent == <<"I spent 500 on groceries">>
QPoem == <<"write a poem">>
Queries == {QSpent, QPoem}

\* The queries the topic guard is exercised with: every combination of a
\* matching allow rule and a matching block rule, in either case of letters.
QHi == <<"hi">>
QOcean == <<"write me a poem about the ocean">>
GuardQueries ==
    {QHi, QOcean, QSpent, QPoem,
     <<"Hello there">>, <<"WRITE an essay">>, <<"Write a poem about my expenses">>,
     <<"Tell me about my bills">>, <<"What's the weather">>, <<"highway traffic">>,
     <<"cricket score">>, <<"cricket tickets I bought">>, <<"thanks">>}

\* --------------------------------------------------------- chat.service.ts
\* F(x), with x evaluated once.
Once(x, F(_)) == CHOOSE v \in {F(y) : y \in {x}} : TRUE

RECURSIVE Digits(_)
Digits(n) ==
    IF n < 10 THEN <<CASE n = 0 -> "0" [] n = 1 -> "1" [] n = 2 -> "2" [] n = 3 -> "3"
                        [] n = 4 -> "4" [] n = 5 -> "5" [] n = 6 -> "6" [] n = 7 -> "7"
                        [] n = 8 -> "8" [] OTHER -> "9">>
    ELSE Once(n \div 10, Digits) \o Once(n % 10, Digits)

DefaultName == <<"d", "e", "f", "a", "u", "l", "t">>

\* Mutant: the thread name is used bare, without the owner prefix.
scopeThreadIdBare(userId, threadId) ==
    IF threadId.given THEN threadId.name ELSE DefaultName

\* `user-${userId}-${threadId ?? 'default'}`
scopeThreadId(userId, threadId) ==
    <<"u", "s", "e", "r", "-">> \o Digits(userId) \o <<"-">>
      \o (IF threadId.given THEN threadId.name ELSE DefaultName)

\* ------------------------------------------------------------ Topic Guard
\* The string a text (a sequence of chunks) stands for.
RECURSIVE Str(_)
Str(text) == IF text = <<>> THEN "" ELSE Head(text) \o Once(Tail(text), Str)

Char(s, i) == SubSeq(s, i, i)
UpperCase == "ABCDEFGHIJKLMNOPQRSTUVWXYZ"
LowerCase == "abcdefghijklmnopqrstuvwxyz"
DigitChars == "0123456789"
WhiteSpace == {" ", "\t", "\n"}

\* String.prototype.toLowerCase, on the letters A-Z.
RECURSIVE toLowerCase(_)
toLowerCase(s) ==
    IF s = "" THEN ""
    ELSE (IF \E k \in 1..26 : Char(UpperCase, k) = Char(s, 1)
          THEN Char(LowerCase, CHOOSE k \in 1..26 : Char(UpperCase, k) = Char(s, 1))
          ELSE Char(s, 1))
         \o Once(SubSeq(s, 2, Len(s)), toLowerCase)

\* String.prototype.trim: white space is removed at both ends.
RECURSIVE trim(_)
trim(s) ==
    IF s = "" THEN ""
    ELSE IF Char(s, 1) \in WhiteSpace THEN trim(SubSeq(s, 2, Len(s)))
    ELSE IF Char(s, Len(s)) \in WhiteSpace THEN trim(SubSeq(s, 1, Len(s) - 1))
    ELSE s

\* ------------------------------------------------------ strings and dates
\* The order of strings by UTF-16 code units (the characters of the model).
CodeUnits == "-0123456789ABCDEFGHIJKLMNOPQRSTUVWXYZ_abcdefghijklmnopqrstuvwxyz"
Rank(order, c) == CHOOSE k \in 1..Len(order) : Char(order, k) = c

RECURSIVE Before(_, _, _)
Before(order, a, b) ==
    IF b = "" THEN FALSE
    ELSE IF a = "" THEN TRUE
    ELSE IF Char(a, 1) = Char(b, 1)
         THEN \E x \in {SubSeq(a, 2, Len(a))}, y \in {SubSeq(b, 2, Len(b))} :
                  Before(order, x, y)
         ELSE Rank(order, Char(a, 1)) < Rank(order, Char(b, 1))

\* a < b and a <= b for two strings, lexicographically by code unit.
Lt(a, b) == Before(CodeUnits, a, b)
Lte(a, b) == a = b \/ Lt(a, b)

\* String.prototype.localeCompare(b) < 0 under the root collation: strings
\* are compared letter by letter without regard to case (punctuation before
\* digits before letters); strings equal up to case are ordered by the first
\* letter that differs in case, lower case first.
Collation == "_-0123456789abcdefghijklmnopqrstuvwxyz"
RECURSIVE LowerFirst(_, _)
LowerFirst(a, b) ==
    IF a = "" THEN FALSE
    ELSE IF Char(a, 1) = Char(b, 1)
         THEN \E x \in {SubSeq(a, 2, Len(a))}, y \in {SubSeq(b, 2, Len(b))} :
                  LowerFirst(x, y)
         ELSE Char(a, 1) = toLowerCase(Char(a, 1))
localeCompareBefore(a, b) ==
    \E la \in {toLowerCase(a)}, lb \in {toLowerCase(b)} :
        IF la = lb THEN LowerFirst(a, b) ELSE Before(Collation, la, lb)

\* Number(s) of a string of digits, and String(n).padStart(w, '0').
RECURSIVE Number(_)
Number(s) ==
    IF s = "" THEN 0
    ELSE 10 * Once(SubSeq(s, 1, Len(s) - 1), Number)
           + (Rank(DigitChars, Char(s, Len(s))) - 1)
RECURSIVE padStart(_, _)
padStart(s, w) ==
    IF Len(s) >= w THEN s ELSE Once("0" \o s, LAMBDA t : padStart(t, w))

isLeapYear(y) == (y % 4 = 0 /\ y % 100 # 0) \/ y % 400 = 0
daysInMonth(y, m) ==
    CASE m \in {4, 6, 9, 11} -> 30
      [] m = 2 -> IF isLeapYear(y) THEN 29 ELSE 28
      [] OTHER -> 31
RECURSIVE daysBeforeMonth(_, _)
daysBeforeMonth(y, m) ==
    IF m = 1 THEN 0
    ELSE Once(m - 1, LAMBDA k : daysBeforeMonth(y, k) + daysInMonth(y, k))
\* Days from 1970-01-01 to the first of January of year y.
leapsBefore(y) == ((y - 1) \div 4) - ((y - 1) \div 100) + ((y - 1) \div 400)
daysBeforeYear(y) == 365 * (y - 1970) + leapsBefore(y) - leapsBefore(1970)

\* A string of the form YYYY-MM-DD that names a day of the calendar; any
\* other string of the model is one that new Date() cannot parse.
AllDigits(s) == \A k \in 1..Len(s) : \E j \in 1..10 : Char(DigitChars, j) = Char(s, k)
IsIsoDate(s) ==
    /\ Len(s) = 10 /\ Char(s, 5) = "-" /\ Char(s, 8) = "-"
    /\ AllDigits(SubSeq(s, 1, 4)) /\ AllDigits(SubSeq(s, 6, 7)) /\ AllDigits(SubSeq(s, 9, 10))
    /\ Number(SubSeq(s, 6, 7)) \in 1..12
    /\ Number(SubSeq(s, 9, 10)) \in 1..daysInMonth(Number(SubSeq(s, 1, 4)), Number(SubSeq(s, 6, 7)))

\* new Date('YYYY-MM-DD') is midnight UTC of that day; getFullYear, getMonth
\* and new Date(year, 0, 1) read the clock of the server's time zone, which
\* is tz minutes ahead of UTC.  The civil day (UTC) and the local day of d.
Civil(s) ==
    [y |-> Number(SubSeq(s, 1, 4)), m |-> Number(SubSeq(s, 6, 7)),
     d |-> Number(SubSeq(s, 9, 10))]
dayNumber(civil) ==
    Once(civil, LAMBDA c : daysBeforeYear(c.y) + daysBeforeMonth(c.y, c.m) + c.d - 1)
LocalDay(civil, tz) ==
    \* the civil day, evaluated once
    Once(civil, LAMBDA c :
    IF tz >= 0 THEN c
    ELSE IF c.d > 1 THEN [c EXCEPT !.d = c.d - 1]
    ELSE IF c.m > 1 THEN [c EXCEPT !.m = c.m - 1, !.d = daysInMonth(c.y, c.m - 1)]
    ELSE [y |-> c.y - 1, m |-> 12, d |-> 31])

\* Math.ceil(a / b) for b > 0.
Ceil(a, b) == -((-a) \div b)
String(n) == Once(Digits(n), Str)

\* `${d.getFullYear()}-${String(d.getMonth() + 1).padStart(2, '0')}`
monthKey(date, tz) ==
    IF ~IsIsoDate(date) THEN "NaN-NaN"
    ELSE Once(LocalDay(Civil(date), tz),
              LAMBDA l : String(l.y) \o "-" \o Once(String(l.m), LAMBDA m : padStart(m, 2)))

\* week = Math.ceil(((d - startOfYear) / 86400000 + startOfYear.getDay() + 1) / 7)
\* with startOfYear = new Date(d.getFullYear(), 0, 1), in minutes.
weekKey(date, tz) ==
    IF ~IsIsoDate(date) THEN "NaN-WNaN"
    ELSE Once(LocalDay(Civil(date), tz), LAMBDA l :
         Once(daysBeforeYear(l.y), LAMBDA startDay :
         Once((dayNumber(Civil(date)) - startDay) * 1440 + tz, LAMBDA elapsed :
         Once((4 + startDay) % 7, LAMBDA getDay :
         Once(Ceil(elapsed + (getDay + 1) * 1440, 7 * 1440), LAMBDA week :
             String(l.y) \o "-W" \o Once(String(week), LAMBDA w : padStart(w, 2)))))))

\* The regular expressions of the guard.  A pattern is a sequence of atoms:
\*   Lit(S)      one of the literals of S          (a|b|c)
\*   Opt(S)      one of the literals of S, or none (a|b)?
\*   WordB       \b          Start       ^          Spaces      \s+
\*   NotNext(S)  (?!a)       NotLater(S) (?!.*a)
\* A regular expression whose alternatives differ in shape is written as
\* several patterns.
Lit(S) == [k |-> "lit", alts |-> S]
Opt(S) == [k |-> "opt", alts |-> S]
WordB == [k |-> "b", alts |-> {}]
Start == [k |-> "^", alts |-> {}]
Spaces == [k |-> "s+", alts |-> {}]
NotNext(S) == [k |-> "notNext", alts |-> S]
NotLater(S) == [k |-> "notLater", alts |-> S]

\* \w and \b of a regular expression without the u flag.
WordChars ==
    {Char(LowerCase, k) : k \in 1..26} \cup {Char(UpperCase, k) : k \in 1..26}
      \cup {Char(DigitChars, k) : k \in 1..10} \cup {"_"}
IsWordChar(s, i) == i >= 1 /\ i <= Len(s) /\ Char(s, i) \in WordChars
At(s, i, lit) == i + Len(lit) - 1 <= Len(s) /\ SubSeq(s, i, i + Len(lit) - 1) = lit

\* The atoms match s from position i on.
RECURSIVE MatchAt(_, _, _)
MatchAt(s, i, atoms) ==
    IF atoms = <<>> THEN TRUE
    ELSE CASE Head(atoms).k = "lit" ->
                \E l \in Head(atoms).alts : At(s, i, l) /\ MatchAt(s, i + Len(l), Tail(atoms))
           [] Head(atoms).k = "opt" ->
                \/ \E l \in Head(atoms).alts :
                      At(s, i, l) /\ MatchAt(s, i + Len(l), Tail(atoms))
                \/ MatchAt(s, i, Tail(atoms))
           [] Head(atoms).k = "b" ->
                IsWordChar(s, i - 1) # IsWordChar(s, i) /\ MatchAt(s, i, Tail(atoms))
           [] Head(atoms).k = "^" -> i = 1 /\ MatchAt(s, i, Tail(atoms))
           [] Head(atoms).k = "s+" ->
                \E j \in (i + 1)..(Len(s) + 1) :
                    /\ \A k \in i..(j - 1) : Char(s, k) \in WhiteSpace
                    /\ MatchAt(s, j, Tail(atoms))
           [] Head(atoms).k = "notNext" ->
                /\ ~\E l \in Head(atoms).alts : At(s, i, l)
                /\ MatchAt(s, i, Tail(atoms))
           [] OTHER ->
                /\ ~\E j \in i..Len(s) : \E l \in Head(atoms).alts : At(s, j, l)
                /\ MatchAt(s, i, Tail(atoms))

\* RegExp.prototype.test: the pattern matches somewhere in s.
test(re, s) == \E i \in 1..(Len(s) + 1) : MatchAt(s, i, re)

ALLOW_PATTERNS ==
    {<<Start, Lit({"hi", "hello", "hey"}), WordB>>,
     <<Start, Lit({"good"}), Spaces, Lit({"morning", "afternoon", "evening"})>>,
     <<WordB, Lit({"what can you do", "what can you help"})>>,
     <<WordB, Lit({"how do i", "how do you", "how can i", "how can you"})>>,
     <<WordB, Lit({"expense", "spend", "spent", "bought", "purchase", "bill",
                   "invoice", "receipt", "budget", "save", "saving", "savings",
                   "finance", "money", "cash", "cost", "price", "amount", "total",
                   "summary", "summarise", "summarize", "chart", "graph", "report",
                   "insight", "category", "categories", "rupee", "dining",
                   "shopping", "transport", "utilities", "tracking", "transaction"})>>,
     <<WordB, Lit({"pay"}), Opt({"ment", "ing", "ed"}), WordB>>,
     <<WordB, Lit({"delete", "remove"}), Spaces, Lit({"expense", "record"})>>,
     <<WordB, Lit({"inr"}), WordB>>,
     <<Lit({"₹"})>>,
     <<WordB, Lit({"health", "education"}), Spaces, Lit({"expense"})>>}

BLOCK_PATTERNS ==
    {<<WordB, Lit({"write "}), Opt({"a ", "an "}),
       Lit({"poem", "story", "essay", "code", "function", "script", "letter",
            "song", "blog"})>>,
     <<WordB, Lit({"write "}), Opt({"a ", "an "}), Lit({"email"}),
       NotNext({" expense"})>>,
     <<WordB, Lit({"recipe", "how cook", "how to cook", "bake", "ingredient",
                   "meal plan", "meal prep"}), WordB>>,
     <<WordB, Lit({"weather", "forecast", "temperature", "climate"}), WordB>>,
     <<WordB, Lit({"debug", "fix code", "fix my code", "coding", "programming",
                   "javascript", "python", "typescript", "react", "nodejs",
                   "algorithm", "data structure"}), WordB>>,
     <<WordB, Lit({"sql"}), NotNext({" expense"}), WordB>>,
     <<WordB, Lit({"capital of", "president of", "who invented", "who discovered",
                   "who wrote", "history of", "tell me about", "explain quantum",
                   "explain relativity", "explain photosynthesis"}), WordB>>,
     <<WordB, Lit({"movie", "film", "series", "tv show", "song", "music", "lyrics",
                   "actor", "actress", "celebrity", "anime"}), WordB>>,
     <<WordB, Lit({"translate this", "translate to", "translate into", "in french",
                   "in spanish", "in german", "in japanese", "in arabic",
                   "in chinese", "in korean"}), WordB>>,
     <<WordB, Lit({"joke", "riddle", "fun fact", "trivia", "play game", "play quiz"}),
       WordB>>,
     <<WordB, Lit({"play a"}), Spaces, Lit({"game", "quiz"}), WordB>>,
     <<WordB, Lit({"sport", "cricket", "football", "basketball", "tennis", "ipl",
                   "fifa"}), WordB, NotLater({"expense"}), NotLater({"spend"})>>,
     <<WordB, Lit({"how bitcoin work", "how does bitcoin work", "what is ethereum",
                   "nft", "blockchain"}), WordB, NotLater({"expense"})>>,
     <<WordB, Lit({"diagnose", "symptom", "medicine", "dosage", "workout routine",
                   "exercise plan"}), WordB, NotLater({"expense"})>>,
     <<WordB, Lit({"best place to visit", "best place to travel",
                   "best destination to visit", "best destination to travel",
                   "tourist spot", "visa requirements"}), WordB,
       NotLater({"expense"})>>}

\* ALLOW_PATTERNS.some((re) => re.test(lower))
AllowMatch(lower) == \E re \in ALLOW_PATTERNS : test(re, lower)

\* BLOCK_PATTERNS.some((re) => re.test(lower))
BlockMatch(lower) == \E re \in BLOCK_PATTERNS : test(re, lower)

\* The text of a message as the rules are tested on it.
Lowered(text) == trim(toLowerCase(Str(text)))

\* Mutants: a match of an allow rule rejects the message; the block rules
\* are looked at before the allow rules.
isRelevantAllowRejects(text) ==
    \E lower \in {trim(toLowerCase(Str(text)))} :
        ~AllowMatch(lower) /\ ~BlockMatch(lower)
isRelevantBlockFirst(text) ==
    \E lower \in {trim(toLowerCase(Str(text)))} :
        IF BlockMatch(lower) THEN FALSE ELSE TRUE

\* Mutant: the guard lets every message through.
isRelevantAlways(text) == TRUE

\* const lower = text.toLowerCase().trim(); allow rules first, then block rules.
isRelevantMessage(text) ==
    \E lower \in {trim(toLowerCase(Str(text)))} :
        IF AllowMatch(lower) THEN TRUE
        ELSE IF BlockMatch(lower) THEN FALSE
        ELSE TRUE

\* isRelevantMessage on every user message of the model, evaluated once.
Relevant == [text \in Queries \cup GuardQueries |-> isRelevantMessage(text)]

OFF_TOPIC_REPLY == <<"I'm your expense tracking assistant", "...">>

\* ---------------------------------------------------------------- messages
\* The arguments of a tool call; an argument a tool does not take is 0 or "".
NoArgs ==
    [amount |-> 0, id |-> 0, groupBy |-> "", from |-> "", to |-> "", category |-> "",
     date |-> ""]

HumanMessage(q, r) ==
    [type |-> "human", content |-> q, tool_calls |-> <<>>, name |-> "", turn |-> r]
AIMessage(text, calls, r) ==
    [type |-> "ai", content |-> text, tool_calls |-> calls, name |-> "", turn |-> r]
ToolMessage(toolName, text, r) ==
    [type |-> "tool", content |-> text, tool_calls |-> <<>>, name |-> toolName, turn |-> r]

\* JSON.stringify of a tool's payload, and JSON.parse of a message content.
JsonObject(fields) == <<"{">> \o fields \o <<"}">>
IsJson(text) == Len(text) >= 2 /\ text[1] = "{" /\ text[Len(text)] = "}"
JsonHas(text, field) == IsJson(text) /\ \E i \in 2..(Len(text) - 1) : text[i] = field

\* ------------------------------------------------------------ Tool Catalog
\* categoryEnum of the tool schemas.
Categories ==
    {"DINING", "SHOPPING", "TRANSPORT", "ENTERTAINMENT", "UTILITIES", "HEALTH",
     "EDUCATION", "OTHER"}

\* The zod schema of each tool, on the arguments the model supplies; from, to
\* and date are strings of any form, an optional argument left out is "".
SchemaOk(call) ==
    CASE call.name = "add_expense" ->
             call.args.amount > 0 /\ call.args.category \in Categories \cup {""}
      [] call.name = "get_expenses" -> call.args.category \in Categories \cup {""}
      [] call.name = "generate_expense_chart" ->
             call.args.groupBy \in {"date", "week", "month", "category"}
      [] call.name = "delete_expense" -> call.args.id > 0
      [] OTHER -> FALSE

\* new Date().toISOString().split('T')[0] at the time of the behaviour.
Today == "2024-03-15"

\* Amounts are counted in thousandths of a rupee.
Rupees(n) == 1000 * n

\* Math.round(x * 100) / 100, on amounts read as exact decimals.
Round2(x) == ((x + 5) \div 10) * 10

\* prisma.expense.create with userId bound at initTools(userId).
addExpense(userId, args, db) ==
    [db |-> [expenses |-> db.expenses \cup
                 {[id |-> db.nextId, userId |-> userId, amount |-> args.amount,
                   category |-> IF args.category = "" THEN "OTHER" ELSE args.category,
                   date |-> IF args.date = "" THEN Today ELSE args.date]},
             nextId |-> db.nextId + 1],
     content |-> JsonObject(<<"status:success", "message", "id">>)]

\* orderBy: { date: 'asc' | 'desc' }: the rows in the order of their date
\* strings, rows of one date in the order of their creation.
RECURSIVE orderByDate(_, _)
orderByDate(rows, dir) ==
    IF rows = {} THEN <<>>
    ELSE Once(CHOOSE e \in rows : \A f \in rows \ {e} :
                  \/ IF dir = "asc" THEN Lt(e.date, f.date) ELSE Lt(f.date, e.date)
                  \/ e.date = f.date /\ e.id < f.id,
              LAMBDA first :
                  <<first>> \o Once(rows \ {first}, LAMBDA rest : orderByDate(rest, dir)))

\* JSON.stringify of the rows of a findMany, and the sum of their amounts.
RECURSIVE RowTokens(_)
RowTokens(rows) ==
    IF rows = <<>> THEN <<>>
    ELSE <<"id">> \o Digits(Head(rows).id) \o <<"amount">> \o Digits(Head(rows).amount)
           \o <<"category", Head(rows).category, "date", Head(rows).date, "userId">>
           \o Digits(Head(rows).userId) \o Once(Tail(rows), RowTokens)

RECURSIVE Total(_)
Total(rows) ==
    IF rows = {} THEN 0
    ELSE Once(CHOOSE e \in rows : TRUE,
              LAMBDA first : first.amount + Once(rows \ {first}, Total))

\* The payload of get_expenses for the rows found.
ExpensesPayload(rows) ==
    IF rows = <<>> THEN JsonObject(<<"message", "data:[]">>)
    ELSE JsonObject(<<"data">> \o RowTokens(rows) \o <<"summary", "count">>
                      \o Digits(Len(rows)) \o <<"total">>
                      \o Digits(Round2(Total({rows[i] : i \in 1..Len(rows)}))))

\* Mutants: the rows are read without the owner filter; the range excludes
\* its upper end.
getExpensesUnscoped(userId, args, db) ==
    [db |-> db,
     content |-> Once(
         {e \in db.expenses :
             /\ Lte(args.from, e.date) /\ Lte(e.date, args.to)
             /\ args.category # "" => e.category = args.category},
         LAMBDA found : Once(orderByDate(found, "desc"), ExpensesPayload))]
getExpensesBeforeTo(userId, args, db) ==
    [db |-> db,
     content |-> Once(
         {e \in db.expenses :
             /\ e.userId = userId
             /\ Lte(args.from, e.date) /\ Lt(e.date, args.to)
             /\ args.category # "" => e.category = args.category},
         LAMBDA found : Once(orderByDate(found, "desc"), ExpensesPayload))]

\* findMany({ where: { userId, date: { gte: from, lte: to }, category },
\*            orderBy: { date: 'desc' } })
getExpenses(userId, args, db) ==
    [db |-> db,
     content |-> Once(
         {e \in db.expenses :
             /\ e.userId = userId
             /\ Lte(args.from, e.date) /\ Lte(e.date, args.to)
             /\ args.category # "" => e.category = args.category},
         LAMBDA found : Once(orderByDate(found, "desc"), ExpensesPayload))]

\* The clock of the server: its time zone, in minutes ahead of UTC.
VARIABLE timeZone

\* The key of a row in the chart: its month, week, category or date.
ChartKey(row, groupBy) ==
    CASE groupBy = "month" -> monthKey(row.date, timeZone)
      [] groupBy = "week" -> weekKey(row.date, timeZone)
      [] groupBy = "category" -> row.category
      [] OTHER -> row.date

\* Mutant: the keys are sorted by code unit.
RECURSIVE sortByCodeUnit(_)
sortByCodeUnit(keys) ==
    IF keys = {} THEN <<>>
    ELSE Once(CHOOSE a \in keys : \A b \in keys \ {a} : Lt(a, b),
              LAMBDA first : <<first>> \o Once(keys \ {first}, sortByCodeUnit))

\* Object.entries(grouped).sort(([a], [b]) => a.localeCompare(b))
RECURSIVE sortByLocaleCompare(_)
sortByLocaleCompare(keys) ==
    IF keys = {} THEN <<>>
    ELSE Once(CHOOSE a \in keys : \A b \in keys \ {a} : localeCompareBefore(a, b),
              LAMBDA first : <<first>> \o Once(keys \ {first}, sortByLocaleCompare))

\* .map(([period, total]) => ({ [groupBy]: period, amount: round(total) }))
RECURSIVE BucketTokens(_, _, _)
BucketTokens(keys, rows, groupBy) ==
    IF keys = <<>> THEN <<>>
    ELSE <<groupBy, Head(keys), "amount">>
           \o Digits(Round2(Total({e \in rows : ChartKey(e, groupBy) = Head(keys)})))
           \o Once(Tail(keys), LAMBDA rest : BucketTokens(rest, rows, groupBy))

\* findMany({ where: { userId, date: { gte: from, lte: to } } }), the amounts
\* summed per key, the keys sorted.
generateChart(userId, args, db) ==
    [db |-> db,
     content |-> Once(
         {e \in db.expenses :
             e.userId = userId /\ Lte(args.from, e.date) /\ Lte(e.date, args.to)},
         LAMBDA rows :
             Once(sortByLocaleCompare({ChartKey(e, args.groupBy) : e \in rows}),
                  LAMBDA keys :
                      JsonObject(<<"type:chart", "data">>
                                   \o BucketTokens(keys, rows, args.groupBy)
                                   \o <<"labelKey", args.groupBy>>)))]

\* prisma.expense.findFirst({ where: { id, userId } }): the rows it may return.
findFirst(userId, id, db) == {e \in db.expenses : e.id = id /\ e.userId = userId}

\* The payloads of delete_expense.
DeleteNotFound == JsonObject(<<"status:error", "message">>)
DeleteSuccess == JsonObject(<<"status:success", "message">>)

\* prisma.expense.delete({ where: { id } }): the record is removed; when no
\* record has the id the store rejects (record to delete does not exist).
delete(id, db) ==
    IF \E e \in db.expenses : e.id = id
    THEN [db |-> [db EXCEPT !.expenses = {e \in db.expenses : e.id # id}],
          raised |-> FALSE]
    ELSE [db |-> db, raised |-> TRUE]

\* Mutant: the expense is looked up by its id alone.
deleteExpenseAnyOwner(userId, args, db) ==
    LET found == {e \in db.expenses : e.id = args.id}
    IN IF found = {}
       THEN [db |-> db, content |-> JsonObject(<<"status:error", "message">>)]
       ELSE [db |-> [db EXCEPT !.expenses = {e \in db.expenses : e.id # args.id}],
             content |-> JsonObject(<<"status:success", "message">>)]

\* findFirst({ where: { id, userId } }), then delete({ where: { id } }).
deleteExpense(userId, args, db) ==
    IF findFirst(userId, args.id, db) = {}
    THEN [db |-> db, content |-> DeleteNotFound]
    ELSE [db |-> delete(args.id, db).db, content |-> DeleteSuccess]

\* ToolNode.runTool: a schema failure or an exception of the tool becomes an
\* error ToolMessage whose content is plain text (handleToolErrors).
ToolErrorText == <<"Error:", "Please fix your mistakes.">>

\* deleteExpense after its findFirst has resolved with found ("row" or
\* "null"): the not-found payload, or the delete and the success payload; an
\* exception of the delete is what ToolNode makes of it.
deleteExpenseFound(found, args, db) ==
    IF found = "null" THEN [db |-> db, content |-> DeleteNotFound]
    ELSE \* one result of the delete, evaluated once
         CHOOSE res \in {[db |-> gone.db,
                          content |-> IF gone.raised THEN ToolErrorText
                                      ELSE DeleteSuccess] :
                             gone \in {delete(args.id, db)}} : TRUE

RunTool(userId, call, db) ==
    IF ~SchemaOk(call) THEN [db |-> db, content |-> ToolErrorText]
    ELSE CASE call.name = "add_expense" -> addExpense(userId, call.args, db)
           [] call.name = "get_expenses" -> getExpenses(userId, call.args, db)
           [] call.name = "generate_expense_chart" -> generateChart(userId, call.args, db)
           [] OTHER -> deleteExpense(userId, call.args, db)

\* The calls run one after the other, each on the store the one before left;
\* one is the outcome of the first call, evaluated once.
RECURSIVE RunCalls(_, _, _, _)
RunCalls(userId, calls, db, r) ==
    IF calls = <<>> THEN [db |-> db, msgs |-> <<>>]
    ELSE CHOOSE rest \in
             {[RunCalls(userId, Tail(calls), one.db, r) EXCEPT
                  !.msgs = <<ToolMessage(Head(calls).name, one.content, r)>> \o @] :
              one \in {RunTool(userId, Head(calls), db)}} : TRUE

\* Mutant: the tools node runs the first requested call only.
ToolNodeFirstOnly(userId, calls, db, r) == RunCalls(userId, <<Head(calls)>>, db, r)

\* new ToolNode(tools): one ToolMessage per requested call, in request order.
ToolNode(userId, calls, db, r) == RunCalls(userId, calls, db, r)

\* --------------------------------------------------------------- edge logic
shouldContinue(lastMessage) ==
    IF Len(lastMessage.tool_calls) > 0 THEN "tools" ELSE "__end__"

\* Mutants: the chart check is dropped; every tool result ends the turn.
shouldCallModelAlways(lastMessage) == "callModel"
shouldCallModelNever(lastMessage) == "__end__"

shouldCallModel(lastMessage) ==
    IF IsJson(lastMessage.content) /\ JsonHas(lastMessage.content, "type:chart")
    THEN "__end__"
    ELSE "callModel"

\* The chunks a run hands to the response stream.
Announcement(call) ==
    [mode |-> "custom", type |-> "toolCall:start", name |-> call.name,
     args |-> call.args, content |-> <<>>]
MessageChunk(m) ==
    [mode |-> "messages", type |-> m.type, name |-> m.name, args |-> NoArgs,
     content |-> m.content]

RECURSIVE MessageChunks(_)
MessageChunks(ms) ==
    IF ms = <<>> THEN <<>> ELSE <<MessageChunk(Head(ms))>> \o MessageChunks(Tail(ms))

\* ------------------------------------------------------ the model capability
AddCall == [name |-> "add_expense", args |-> [NoArgs EXCEPT !.amount = Rupees(500)]]
ChartCall ==
    [name |-> "generate_expense_chart",
     args |-> [NoArgs EXCEPT !.from = "2024-01-01", !.to = "2024-12-31",
                              !.groupBy = "category"]]
BadCall == [name |-> "delete_expense", args |-> NoArgs]
GetCall ==
    [name |-> "get_expenses",
     args |-> [NoArgs EXCEPT !.from = "2024-01-01", !.to = "2024-12-31"]]
DelCall == [name |-> "delete_expense", args |-> [NoArgs EXCEPT !.id = 1]]
ToolCallInputs == {AddCall, ChartCall, BadCall}
CatalogCalls == {AddCall, GetCall, ChartCall, DelCall, BadCall}

\* The records a behaviour may find in the store: expenses added earlier
\* through the API (dates of the form YYYY-MM-DD) or through add_expense
\* (dates of any form), of both owners, with amounts of up to three decimals.
Expense(id, userId, date, category, amount) ==
    [id |-> id, userId |-> userId, amount |-> amount, category |-> category,
     date |-> date]
LedgerRows ==
    <<Expense(1, 1, "2024-01-06", "DINING", 1006),
      Expense(2, 1, "2024-01-06", "SHOPPING", 2003),
      Expense(3, 1, "2024-01-07", "DINING", Rupees(300)),
      Expense(4, 12, "2024-01-06", "DINING", Rupees(7)),
      Expense(5, 1, "2024-03-01", "OTHER", 2500),
      Expense(6, 1, "2023-12-31", "DINING", Rupees(90)),
      Expense(7, 1, "2024-03-a", "OTHER", Rupees(20)),
      Expense(8, 1, "2024-03-B", "OTHER", Rupees(30))>>
Ledgers ==
    {{LedgerRows[i] : i \in ids} :
        ids \in {{}, {4}, {1, 2, 4}, {1, 2, 3, 4, 5, 6}, {3, 4, 5, 7, 8}}}
\* The store of the "race" workload: two records of owner 1, one of owner 12.
RaceLedger == {LedgerRows[i] : i \in {1, 2, 4}}
Ledger(rows) ==
    [expenses |-> rows,
     nextId |-> 1 + Cardinality({i \in 1..Len(LedgerRows) :
                                   \E e \in rows : e.id >= i})]

\* The queries of the model on a ledger: a list or a chart of a period.
LedgerPeriods ==
    {<<"2024-01-01", "2024-12-31">>, <<"2024-01-06", "2024-01-06">>,
     <<"2024-01-07", "2024-03-01">>, <<"2024-12-31", "2024-01-01">>}
LedgerCalls ==
    {[name |-> "get_expenses",
      args |-> [NoArgs EXCEPT !.from = p[1], !.to = p[2], !.category = c]] :
        p \in LedgerPeriods, c \in {"", "DINING", "HEALTH"}}
      \cup {[name |-> "generate_expense_chart",
             args |-> [NoArgs EXCEPT !.from = p[1], !.to = p[2], !.groupBy = g]] :
               p \in LedgerPeriods, g \in {"date", "week", "month", "category"}}

RECURSIVE CallSeqs(_)
CallSeqs(n) ==
    IF n = 0 THEN {<<>>}
    ELSE CallSeqs(n - 1) \cup
         {Append(cs, c) : cs \in {x \in CallSeqs(n - 1) : Len(x) = n - 1},
                          c \in ToolCallInputs}

\* What one invocation may answer: a text (possibly empty) or tool calls.
ModelResponses ==
    {[text |-> t, tool_calls |-> <<>>] : t \in {<<>>, <<"Done.">>}}
      \cup {[text |-> <<>>, tool_calls |-> cs] : cs \in CallSeqs(MaxCalls) \ {<<>>}}

\* The time zones of the server: UTC, UTC+05:30 and UTC-05:00.
TimeZones == {0, 330, -300}

\* ------------------------------------------------------------ refresh tokens
\* The calls of refreshTokenService in progress at the same time.
AuthCalls == {1, 2}

\* JWT_REFRESH_EXPIRES_IN, in ticks of the clock.
RefreshLifetime == 3

\* A column without a value.
Null == -1

\* jwt.sign(payload, JWT_REFRESH_SECRET, { expiresIn }): the token is a
\* function of the payload and of the time of issue (iat).
signRefreshToken(sub, now) == [sub |-> sub, iat |-> now, signed |-> TRUE]

\* A token that was not signed with the secret.
ForgedToken == [sub |-> 1, iat |-> 0, signed |-> FALSE]

\* jwt.verify: the signature and the exp claim; FALSE when it throws.
verifyRefreshToken(token, now) ==
    token.signed /\ now < token.iat + RefreshLifetime

\* The refresh token of generateTokenPair(userId, email, role).
generateTokenPair(userId, now) == signRefreshToken(userId, now)

\* new Date(Date.now() + parseDurationMs(JWT_REFRESH_EXPIRES_IN))
getRefreshTokenExpiry(now) == now + RefreshLifetime

IdleRefresh ==
    [pc |-> "idle", refreshToken |-> ForgedToken, stored |-> 0,
     tokens |-> ForgedToken, result |-> ""]

\* -------------------------------------------------------------------- state
VARIABLES
    agentCache,   \* agentCache: user id -> the compiled agent (engine) cached for it
    created,      \* the engines createAgent has built so far (names the next one)
    checkpoint,   \* MemorySaver: thread_id -> the messages of the latest checkpoint
    chatMessage,  \* prisma.chatMessage rows, in creation order
    db,           \* prisma.expense rows and the next autoincrement id
    turn,         \* per request: the streamChat handler
    run,          \* per request: the graph run behind agent.stream()
    work,         \* the workload of the behaviour, one of Workloads
    llmInstance,  \* _llmInstance: the model instance of the factory, 0 for null
    llmCreated,   \* the model instances the provider factory has built so far
    llm,          \* per engine: the model instance createAgent resolved for it
    clock,        \* Date.now(), in ticks
    isActive,     \* user.isActive of owner 1
    refreshToken, \* prisma.refreshToken rows
    refresh       \* per call of refreshTokenService: its position and result

vars == <<agentCache, created, checkpoint, chatMessage, db, turn, run, work, timeZone,
          llmInstance, llmCreated, llm, clock, isActive, refreshToken, refresh>>

IdleTurn ==
    [pc |-> "idle", userId |-> 0, threadId |-> NoThread, query |-> <<>>,
     isConnected |-> FALSE, read |-> 0, wire |-> <<>>, ended |-> FALSE,
     persist |-> "none", outcome |-> "", agent |-> 0]
IdleRun ==
    [node |-> "idle", thread_id |-> <<>>, messages |-> <<>>, out |-> <<>>, step |-> 0,
     modelCalls |-> 0, toolRuns |-> 0, sinceTool |-> 0, chartToModel |-> FALSE,
     requested |-> 0, executed |-> 0, found |-> "none"]

\* ---------------------------------------------------------------- workload
\* "single": one request on a thread that may already hold a completed turn,
\*           answered by a text or by one tool call; the model, the store
\*           and the client may fail.
\* "batch":  one request on a new thread, answered by any model response.
\* "guard":  requests of one owner, one after the other, with the queries of
\*           the topic guard, answered by a text.
\* "ledger": one request on a store that holds records, in any time zone of
\*           the server, answered by a text or by one query of the model.
\* "multi":  several requests, overlapping at will, of both owners on both
\*           thread names, answered by a text, one chart call or one add call.
\* "catalog": requests of both owners, one after the other, answered by a
\*           text or by one call of any tool of the catalogue.
\* "registry": requests of both owners, one after the other, answered by a
\*           text, while the engine cache and the model instance are reset.
\* "race":    two requests of one owner, overlapping at will, on a store that
\*           holds records, answered by a text or by the deletion of one record.
\* "auth":    two calls of refreshTokenService, overlapping at will, and
\*           logouts, on a store that holds the refresh token of a sign-in.
Workloads ==
    {"single", "batch", "guard", "ledger", "multi", "catalog", "registry", "race",
     "auth"}
OneRequest(w) == w \in {"single", "batch"}
WorkRequests(w) ==
    IF w = "auth" THEN {} ELSE IF OneRequest(w) \/ w = "ledger" THEN {1} ELSE Requests
WorkOwners(w) == IF OneRequest(w) \/ w \in {"guard", "ledger", "race"} THEN {1} ELSE Owners
WorkThreads(w) == IF w = "multi" THEN ThreadNames ELSE {NoThread}
WorkResponses(w) ==
    CASE w = "single" -> {resp \in ModelResponses : Len(resp.tool_calls) <= 1}
      [] w = "batch" -> ModelResponses
      [] w \in {"guard", "registry"} -> {[text |-> <<"Done.">>, tool_calls |-> <<>>]}
      [] w = "ledger" -> {[text |-> <<"Done.">>, tool_calls |-> <<>>]}
                           \cup {[text |-> <<>>, tool_calls |-> <<c>>] : c \in LedgerCalls}
      [] w = "race" -> {[text |-> <<"Done.">>, tool_calls |-> <<>>],
                        [text |-> <<>>, tool_calls |-> <<DelCall>>]}
      [] w = "multi" -> {[text |-> <<"Done.">>, tool_calls |-> <<>>],
                         [text |-> <<>>, tool_calls |-> <<ChartCall>>],
                         [text |-> <<>>, tool_calls |-> <<AddCall>>]}
      [] OTHER -> {[text |-> <<"Done.">>, tool_calls |-> <<>>]}
                    \cup {[text |-> <<>>, tool_calls |-> <<c>>] : c \in CatalogCalls}

WorkQueries(w) ==
    CASE w = "guard" -> GuardQueries
      [] w \in {"single", "batch"} -> Queries
      [] OTHER -> {QSpent}

\* Requests overlap in the "multi" workload; in the "catalog", "guard" and
\* "registry" workloads a request arrives when the earlier one is over.
WorkMayStart(w, r) ==
    w \in {"catalog", "guard", "registry"} =>
        \A q \in Requests :
            q < r => turn[q].pc = "done" /\ turn[q].persist # "pending"
                       /\ run[q].node \in {"__end__", "error"}

\* Failures of the model or the store and client disconnects are part of the
\* "single" workload.
WorkFaults(w) == w = "single"

\* The checkpoints a completed earlier turn (request 0) leaves on a thread.
PriorHistories ==
    {<<>>,
     <<HumanMessage(QSpent, 0), AIMessage(<<"Done.">>, <<>>, 0)>>,
     <<HumanMessage(QPoem, 0), AIMessage(OFF_TOPIC_REPLY, <<>>, 0)>>}

Init ==
    /\ work \in Workloads
    /\ timeZone \in TimeZones /\ (work # "ledger" => timeZone = 0)
    /\ agentCache = << >>
    /\ created = 0
    /\ \E prior \in PriorHistories :
          /\ work # "single" => prior = <<>>
          /\ checkpoint = IF prior = <<>> THEN << >>
                          ELSE (scopeThreadId(1, NoThread) :> prior)
    /\ chatMessage = <<>>
    /\ \E rows \in Ledgers :
          /\ work \notin {"ledger", "race"} => rows = {}
          /\ work = "race" => rows = RaceLedger
          /\ db = Ledger(rows)
    /\ turn = [r \in Requests |-> IdleTurn]
    /\ run = [r \in Requests |-> IdleRun]
    /\ llmInstance = 0
    /\ llmCreated = 0
    /\ llm = << >>
    /\ clock = 0
    /\ isActive \in BOOLEAN /\ (work # "auth" => isActive)
    /\ \E revokedAt \in {Null, 0} :
          /\ work # "auth" => revokedAt = Null
          /\ refreshToken =
                 IF work = "auth"
                 THEN {[id |-> 1, token |-> signRefreshToken(1, 0), userId |-> 1,
                        revokedAt |-> revokedAt, expiresAt |-> getRefreshTokenExpiry(0)]}
                 ELSE {}
    /\ refresh = [c \in AuthCalls |-> IdleRefresh]

Last(seq) == seq[Len(seq)]
Saved(thread_id) == IF thread_id \in DOMAIN checkpoint THEN checkpoint[thread_id] ELSE <<>>
IsChart(m) == m.type = "tool" /\ JsonHas(m.content, "type:chart")

\* Mutant: every call builds a new engine and replaces the cached one.
getAgentAlwaysCreates(cache, userId, fresh) ==
    (userId :> fresh) @@ cache

\* if (_llmInstance) return _llmInstance; _llmInstance = factory();
\* the instance returned and the number of instances built after the call.
getLlm(instance, made) ==
    IF instance # 0 THEN [instance |-> instance, created |-> made]
    ELSE [instance |-> made + 1, created |-> made + 1]

\* if (!agentCache.has(userId)) agentCache.set(userId, createAgent(userId));
\* the cache after the call; fresh names the engine createAgent would build.
getAgent(cache, userId, fresh) ==
    IF userId \in DOMAIN cache THEN cache ELSE (userId :> fresh) @@ cache

\* ---------------------------------------------------------------- streamChat
\* POST /api/chat up to the first await of the for-await loop: the thread's
\* checkpoint is loaded, the user message appended and the input checkpointed.
StreamChat(r, userId, threadId, query) ==
    /\ turn[r].pc = "idle"
    /\ r \in WorkRequests(work) /\ userId \in WorkOwners(work)
    /\ threadId \in WorkThreads(work) /\ query \in WorkQueries(work)
    /\ \A q \in Requests : q < r => turn[q].pc # "idle"
    /\ WorkMayStart(work, r)
    /\ LET scopedThreadId == scopeThreadId(userId, threadId)
           messages == Append(Saved(scopedThreadId), HumanMessage(query, r))
       IN /\ agentCache' = getAgent(agentCache, userId, created + 1)
          /\ created' = IF getAgent(agentCache, userId, created + 1) = agentCache
                        THEN created ELSE created + 1
          /\ checkpoint' = (scopedThreadId :> messages) @@ checkpoint
          /\ run' = [run EXCEPT ![r] =
                 [IdleRun EXCEPT !.node = "callModel", !.thread_id = scopedThreadId,
                                 !.messages = messages]]
          /\ turn' = [turn EXCEPT ![r] =
                 [IdleTurn EXCEPT !.pc = "loop", !.userId = userId,
                                  !.threadId = threadId, !.query = query,
                                  !.isConnected = TRUE,
                                  !.agent = getAgent(agentCache, userId, created + 1)[userId]]]
          /\ IF userId \in DOMAIN agentCache
             THEN UNCHANGED <<llmInstance, llmCreated, llm>>
             ELSE \E got \in {getLlm(llmInstance, llmCreated)} :
                      /\ llmInstance' = got.instance
                      /\ llmCreated' = got.created
                      /\ llm' = (created + 1 :> got.instance) @@ llm
    /\ UNCHANGED <<chatMessage, db, work, timeZone, clock, isActive, refreshToken, refresh>>

\* Mutant: leaving the loop stops the run (a pulled, cancellable stream).
CanStepWhilePulled(r) == turn[r].pc = "loop" /\ turn[r].read = Len(run[r].out)

\* The for-await loop has drained what the run produced, or has been left.
CanStep(r) == turn[r].read = Len(run[r].out) \/ turn[r].pc \in {"closing", "done"}

\* Mutant: the graph starts supersteps without any limit.
NoRecursionLimit(step) == TRUE

\* graph.compile({ checkpointer }) sets no recursionLimit and agent.stream
\* passes none: the library's limit on the supersteps of one run applies.
WithinRecursionLimit(step) == step < MaxSteps

\* Mutant: the guard looks at the first human message of the thread.
FirstUserMessage(messages) ==
    LET idx == {i \in 1..Len(messages) : messages[i].type = "human"}
    IN messages[CHOOSE i \in idx : \A j \in idx : i <= j]

\* [...state.messages].reverse().find((m) => m.getType() === 'human')
LastUserMessage(messages) ==
    LET idx == {i \in 1..Len(messages) : messages[i].type = "human"}
    IN messages[CHOOSE i \in idx : \A j \in idx : j <= i]

\* One superstep of the callModel node followed by shouldContinue.
AfterModel(r, response, invoked) ==
    LET st == run[r]
        messages == Append(st.messages, response)
        route == shouldContinue(response)
    IN /\ run' = [run EXCEPT ![r] =
              [st EXCEPT !.messages = messages,
                         !.node = route,
                         !.step = st.step + 1,
                         !.out = st.out \o <<MessageChunk(response)>> \o
                             (IF route = "tools"
                              THEN <<Announcement(response.tool_calls[1])>> ELSE <<>>),
                         !.modelCalls = st.modelCalls + (IF invoked THEN 1 ELSE 0),
                         !.sinceTool = st.sinceTool + (IF invoked THEN 1 ELSE 0),
                         !.chartToModel = st.chartToModel \/
                             (invoked /\ \E i \in 1..Len(st.messages) : IsChart(st.messages[i]))]]
       /\ checkpoint' = (st.thread_id :> messages) @@ checkpoint

CallModel(r) ==
    /\ run[r].node = "callModel"
    /\ CanStep(r)
    /\ WithinRecursionLimit(run[r].step)
    /\ IF ~Relevant[LastUserMessage(run[r].messages).content]
       THEN AfterModel(r, AIMessage(OFF_TOPIC_REPLY, <<>>, r), FALSE)
       ELSE \E resp \in WorkResponses(work) :
                AfterModel(r, AIMessage(resp.text, resp.tool_calls, r), TRUE)
    /\ UNCHANGED <<agentCache, created, chatMessage, db, turn, work, timeZone, llmInstance, llmCreated, llm, clock, isActive, refreshToken, refresh>>

\* llmWithTools.invoke rejects: the run fails, the step's writes are not saved.
ModelFails(r) ==
    /\ WorkFaults(work)
    /\ run[r].node = "callModel"
    /\ CanStep(r)
    /\ WithinRecursionLimit(run[r].step)
    /\ Relevant[LastUserMessage(run[r].messages).content]
    /\ run' = [run EXCEPT ![r].node = "error",
                          ![r].modelCalls = @ + 1,
                          ![r].sinceTool = @ + 1]
    /\ UNCHANGED <<agentCache, created, checkpoint, chatMessage, db, turn, work, timeZone, llmInstance, llmCreated, llm, clock, isActive, refreshToken, refresh>>

\* The graph's recursion limit: no further superstep is started.
RecursionLimit(r) ==
    /\ run[r].node \in {"callModel", "tools"}
    /\ CanStep(r)
    /\ ~WithinRecursionLimit(run[r].step)
    /\ run' = [run EXCEPT ![r].node = "error"]
    /\ UNCHANGED <<agentCache, created, checkpoint, chatMessage, db, turn, work, timeZone, llmInstance, llmCreated, llm, clock, isActive, refreshToken, refresh>>

\* The end of a superstep of the tools node, followed by shouldCallModel:
\* res is the store and the tool messages the executions left.
AfterTools(r, res) ==
    \E messages \in {run[r].messages \o res.msgs} :
       /\ db' = res.db
       /\ run' = [run EXCEPT ![r] =
              [run[r] EXCEPT !.messages = messages,
                             !.node = shouldCallModel(Last(messages)),
                             !.step = @ + 1,
                             !.out = @ \o MessageChunks(res.msgs),
                             !.toolRuns = @ + Len(res.msgs),
                             !.sinceTool = 0,
                             !.requested = Len(Last(run[r].messages).tool_calls),
                             !.executed = Len(res.msgs),
                             !.found = "none"]]
       /\ checkpoint' = (run[r].thread_id :> messages) @@ checkpoint

\* One superstep of the tools node. No other run is in progress between the
\* store operations of one execution, except in the "race" workload.
ToolsNode(r) ==
    /\ work # "race"
    /\ run[r].node = "tools"
    /\ CanStep(r)
    /\ WithinRecursionLimit(run[r].step)
    /\ \E res \in {ToolNode(turn[r].userId, Last(run[r].messages).tool_calls, db, r)} :
          AfterTools(r, res)
    /\ UNCHANGED <<agentCache, created, chatMessage, turn, work, timeZone, llmInstance, llmCreated, llm, clock, isActive, refreshToken, refresh>>

\* The tools node in the "race" workload, where runs overlap between the two
\* store operations of delete_expense. First the findFirst resolves ...
DeleteLookup(r) ==
    /\ work = "race"
    /\ run[r].node = "tools"
    /\ CanStep(r)
    /\ WithinRecursionLimit(run[r].step)
    /\ run[r].found = "none"
    /\ \E call \in {Last(run[r].messages).tool_calls[1]} :
          /\ call.name = "delete_expense" /\ SchemaOk(call)
          /\ run' = [run EXCEPT ![r].found =
                 IF findFirst(turn[r].userId, call.args.id, db) = {} THEN "null" ELSE "row"]
    /\ UNCHANGED <<agentCache, created, checkpoint, chatMessage, db, turn, work, timeZone,
                   llmInstance, llmCreated, llm, clock, isActive, refreshToken, refresh>>

\* ... then the rest of deleteExpense runs on the store as it is by then.
DeleteFinish(r) ==
    /\ work = "race"
    /\ run[r].node = "tools"
    /\ run[r].found # "none"
    /\ \E call \in {Last(run[r].messages).tool_calls[1]} :
          \E one \in {deleteExpenseFound(run[r].found, call.args, db)} :
             AfterTools(r, [db |-> one.db,
                            msgs |-> <<ToolMessage(call.name, one.content, r)>>])
    /\ UNCHANGED <<agentCache, created, chatMessage, turn, work, timeZone, llmInstance, llmCreated, llm, clock, isActive, refreshToken, refresh>>

\* The wire event of one chunk (lines 58-89): none for an empty content.
ErrorEvent ==
    [event |-> "error", type |-> "error", name |-> "", args |-> NoArgs,
     body |-> <<"An error occurred. Please try again.">>, parsed |-> FALSE]

\* Mutant: a chunk with empty content is relayed like any other.
TranslateNoSkip(chunk) ==
    IF chunk.mode = "custom"
    THEN <<[event |-> "custom", type |-> chunk.type, name |-> chunk.name,
            args |-> chunk.args, body |-> <<>>, parsed |-> FALSE]>>
    ELSE IF chunk.type = "ai"
    THEN <<[event |-> "messages", type |-> "ai", name |-> "", args |-> NoArgs,
            body |-> chunk.content, parsed |-> FALSE]>>
    ELSE IF chunk.type = "tool"
    THEN <<[event |-> "messages", type |-> "tool", name |-> chunk.name, args |-> NoArgs,
            body |-> chunk.content, parsed |-> IsJson(chunk.content)]>>
    ELSE <<>>

Translate(chunk) ==
    IF chunk.mode = "custom"
    THEN <<[event |-> "custom", type |-> chunk.type, name |-> chunk.name,
            args |-> chunk.args, body |-> <<>>, parsed |-> FALSE]>>
    ELSE IF chunk.content = <<>> THEN <<>>
    ELSE IF chunk.type = "ai"
    THEN <<[event |-> "messages", type |-> "ai", name |-> "", args |-> NoArgs,
            body |-> chunk.content, parsed |-> FALSE]>>
    ELSE IF chunk.type = "tool"
    THEN <<[event |-> "messages", type |-> "tool", name |-> chunk.name, args |-> NoArgs,
            body |-> chunk.content, parsed |-> IsJson(chunk.content)]>>
    ELSE <<>>

\* One iteration of the for-await loop: break when the close was seen,
\* otherwise translate the chunk and write the event.
Consume(r) ==
    /\ turn[r].pc = "loop"
    /\ turn[r].read < Len(run[r].out)
    /\ turn' = [turn EXCEPT ![r] =
           IF ~turn[r].isConnected
           THEN [turn[r] EXCEPT !.pc = "closing", !.outcome = "broke"]
           ELSE [turn[r] EXCEPT !.read = @ + 1,
                                !.wire = @ \o Translate(run[r].out[turn[r].read + 1])]]
    /\ UNCHANGED <<agentCache, created, checkpoint, chatMessage, db, run, work, timeZone, llmInstance, llmCreated, llm, clock, isActive, refreshToken, refresh>>

\* Mutant: the user message is persisted only while the client is connected.
AfterLoopIfConnected(r) ==
    [turn[r] EXCEPT !.pc = "done", !.ended = TRUE,
                    !.persist = IF turn[r].isConnected THEN "pending" ELSE "none"]

\* persistUserMessage(...) is started and not awaited; finally res.end().
AfterLoop(r) ==
    [turn[r] EXCEPT !.pc = "done", !.persist = "pending", !.ended = TRUE]

\* The stream ends: the run reached __end__ and every chunk was consumed.
StreamEnd(r) ==
    /\ turn[r].pc = "loop"
    /\ turn[r].read = Len(run[r].out)
    /\ run[r].node = "__end__"
    /\ turn' = [turn EXCEPT ![r] = [AfterLoop(r) EXCEPT !.outcome = "ended"]]
    /\ UNCHANGED <<agentCache, created, checkpoint, chatMessage, db, run, work, timeZone, llmInstance, llmCreated, llm, clock, isActive, refreshToken, refresh>>

\* After the break the iterator's return() resolves, at once or when the run
\* has finished, depending on the library build.
AfterBreak(r) ==
    /\ turn[r].pc = "closing"
    /\ turn' = [turn EXCEPT ![r] = AfterLoop(r)]
    /\ UNCHANGED <<agentCache, created, checkpoint, chatMessage, db, run, work, timeZone, llmInstance, llmCreated, llm, clock, isActive, refreshToken, refresh>>

\* Mutants of the catch block: the error event is written twice; the user
\* message is persisted on the failure path too.
CatchBlockTwice(r) ==
    [turn[r] EXCEPT !.pc = "done", !.ended = TRUE, !.outcome = "failed",
                    !.wire = IF turn[r].isConnected THEN @ \o <<ErrorEvent, ErrorEvent>> ELSE @]
CatchBlockPersists(r) ==
    [turn[r] EXCEPT !.pc = "done", !.ended = TRUE, !.outcome = "failed",
                    !.persist = "pending",
                    !.wire = IF turn[r].isConnected THEN Append(@, ErrorEvent) ELSE @]

\* Mutant: the error event is written without looking at isConnected.
CatchBlockAlways(r) ==
    [turn[r] EXCEPT !.pc = "done", !.ended = TRUE, !.outcome = "failed",
                    !.wire = Append(@, ErrorEvent)]

\* catch (err): one error event if still connected, next(err); finally res.end().
CatchBlock(r) ==
    [turn[r] EXCEPT !.pc = "done", !.ended = TRUE, !.outcome = "failed",
                    !.wire = IF turn[r].isConnected THEN Append(@, ErrorEvent) ELSE @]

\* The stream throws: the run failed and every chunk before it was consumed.
StreamError(r) ==
    /\ turn[r].pc = "loop"
    /\ turn[r].read = Len(run[r].out)
    /\ run[r].node = "error"
    /\ turn' = [turn EXCEPT ![r] = CatchBlock(r)]
    /\ UNCHANGED <<agentCache, created, checkpoint, chatMessage, db, run, work, timeZone, llmInstance, llmCreated, llm, clock, isActive, refreshToken, refresh>>

\* req.on('close'): the client went away.
Disconnect(r) ==
    /\ WorkFaults(work)
    /\ turn[r].pc = "loop"
    /\ turn[r].isConnected
    /\ turn' = [turn EXCEPT ![r].isConnected = FALSE]
    /\ UNCHANGED <<agentCache, created, checkpoint, chatMessage, db, run, work, timeZone, llmInstance, llmCreated, llm, clock, isActive, refreshToken, refresh>>

\* prisma.chatMessage.create of persistUserMessage completes ...
PersistDone(r) ==
    /\ turn[r].persist = "pending"
    /\ chatMessage' = Append(chatMessage,
           [userId |-> turn[r].userId,
            threadId |-> scopeThreadId(turn[r].userId, turn[r].threadId),
            role |-> "user", content |-> turn[r].query])
    /\ turn' = [turn EXCEPT ![r].persist = "stored"]
    /\ UNCHANGED <<agentCache, created, checkpoint, db, run, work, timeZone, llmInstance, llmCreated, llm, clock, isActive, refreshToken, refresh>>

\* ... or rejects, which .catch(console.error) swallows.
PersistFails(r) ==
    /\ WorkFaults(work)
    /\ turn[r].persist = "pending"
    /\ turn' = [turn EXCEPT ![r].persist = "failed"]
    /\ UNCHANGED <<agentCache, created, checkpoint, chatMessage, db, run, work, timeZone, llmInstance, llmCreated, llm, clock, isActive, refreshToken, refresh>>

\* getLlm() called on its own builds the instance when there is none.
GetLlm ==
    /\ work = "registry"
    /\ llmInstance = 0
    /\ \E got \in {getLlm(llmInstance, llmCreated)} :
          /\ llmInstance' = got.instance
          /\ llmCreated' = got.created
    /\ UNCHANGED <<agentCache, created, checkpoint, chatMessage, db, turn, run, work,
                   timeZone, llm, clock, isActive, refreshToken, refresh>>

\* resetLlmInstance(): _llmInstance = null. The engines keep their instance.
ResetLlmInstance ==
    /\ work = "registry"
    /\ llmInstance # 0
    /\ llmCreated < MaxLlms
    /\ llmInstance' = 0
    /\ UNCHANGED <<agentCache, created, checkpoint, chatMessage, db, turn, run, work,
                   timeZone, llmCreated, llm, clock, isActive, refreshToken, refresh>>

\* clearAgentCache(): agentCache.clear(). Runs in progress keep their engine.
ClearAgentCache ==
    /\ work \in {"catalog", "registry"}
    /\ DOMAIN agentCache # {}
    /\ agentCache' = << >>
    /\ UNCHANGED <<created, checkpoint, chatMessage, db, turn, run, work, timeZone, llmInstance, llmCreated, llm, clock, isActive, refreshToken, refresh>>

\* ------------------------------------------------------------ chat history
\* parseInt(limit, 10) of the query string; 50 when omitted.
HistoryLimits == {1, 50}

Take(rows, limit) == IF Len(rows) <= limit THEN rows ELSE SubSeq(rows, 1, limit)

\* findMany({ where: { userId, threadId }, orderBy: createdAt asc, take: limit })
getChatHistoryService(rows, userId, threadId, limit) ==
    Take(SelectSeq(rows, LAMBDA m : m.userId = userId /\ m.threadId = threadId), limit)

\* The threadId of a history request: omitted, empty or a name.
HistoryThreads == ThreadNames \cup {Thread(<<>>)}

\* Mutant: without a thread the rows of every owner are removed.
deleteChatHistoryWhereUnscoped(rows, userId, threadId) ==
    IF threadId.given /\ threadId.name # <<>>
    THEN SelectSeq(rows, LAMBDA m :
             m.userId = userId /\ m.threadId = scopeThreadId(userId, threadId))
    ELSE rows

\* where = threadId ? { userId, threadId } : { userId }; the rows deleteMany removes.
deleteChatHistoryWhere(rows, userId, threadId) ==
    IF threadId.given /\ threadId.name # <<>>
    THEN SelectSeq(rows, LAMBDA m :
             m.userId = userId /\ m.threadId = scopeThreadId(userId, threadId))
    ELSE SelectSeq(rows, LAMBDA m : m.userId = userId)

\* DELETE /api/chat/history
DeleteChatHistory(userId, threadId) ==
    /\ deleteChatHistoryWhere(chatMessage, userId, threadId) # <<>>
    /\ LET gone == deleteChatHistoryWhere(chatMessage, userId, threadId)
       IN chatMessage' = SelectSeq(chatMessage,
              LAMBDA m : \A i \in 1..Len(gone) : gone[i] # m)
    /\ UNCHANGED <<agentCache, created, checkpoint, db, turn, run, work, timeZone, llmInstance, llmCreated, llm, clock, isActive, refreshToken, refresh>>

\* ------------------------------------------------------------ auth service
\* The variables of the chat side, which the auth service leaves alone.
chatVars ==
    <<agentCache, created, checkpoint, chatMessage, db, turn, run, work, timeZone,
      llmInstance, llmCreated, llm>>

\* !stored || stored.revokedAt || stored.expiresAt < new Date()
Rejected(rows, now) ==
    rows = {} \/ \E stored \in rows : stored.revokedAt # Null \/ stored.expiresAt < now

\* refreshTokenService up to the await of the transaction: the token is
\* verified and looked up, the checks are made and the new pair generated.
RefreshLookup(c, token) ==
    /\ work = "auth"
    /\ refresh[c].pc = "idle"
    /\ \A d \in AuthCalls : d < c => refresh[d].pc # "idle"
    /\ token \in {ForgedToken} \cup {row.token : row \in refreshToken}
    /\ \E rows \in {{row \in refreshToken : row.token = token}} :
          refresh' = [refresh EXCEPT ![c] =
              IF ~verifyRefreshToken(token, clock)
              THEN [@ EXCEPT !.pc = "done", !.refreshToken = token,
                             !.result = "401 Invalid refresh token"]
              ELSE IF Rejected(rows, clock)
              THEN [@ EXCEPT !.pc = "done", !.refreshToken = token,
                             !.result = "401 Refresh token expired or revoked"]
              ELSE IF ~isActive
              THEN [@ EXCEPT !.pc = "done", !.refreshToken = token,
                             !.result = "403 Account deactivated"]
              ELSE [@ EXCEPT !.pc = "rotate", !.refreshToken = token,
                             !.stored = (CHOOSE row \in rows : TRUE).id,
                             !.tokens = generateTokenPair(
                                            (CHOOSE row \in rows : TRUE).userId, clock)]]
    /\ UNCHANGED <<chatVars, clock, isActive, refreshToken>>

\* prisma.$transaction([update revokedAt, create]) and the return: the
\* create fails on a token the table holds already (token is unique), and the
\* transaction then changes nothing and the call rejects.
RefreshRotate(c) ==
    /\ work = "auth"
    /\ refresh[c].pc = "rotate"
    /\ IF \E row \in refreshToken : row.token = refresh[c].tokens
       THEN /\ refresh' = [refresh EXCEPT ![c].pc = "done", ![c].result = "rejected"]
            /\ UNCHANGED refreshToken
       ELSE /\ refreshToken' =
                  {IF row.id = refresh[c].stored
                   THEN [row EXCEPT !.revokedAt = clock] ELSE row : row \in refreshToken}
                  \cup {[id |-> Cardinality(refreshToken) + 1,
                         token |-> refresh[c].tokens,
                         userId |-> (CHOOSE row \in refreshToken :
                                        row.id = refresh[c].stored).userId,
                         revokedAt |-> Null,
                         expiresAt |-> getRefreshTokenExpiry(clock)]}
            /\ refresh' = [refresh EXCEPT ![c].pc = "done", ![c].result = "tokens"]
    /\ UNCHANGED <<chatVars, clock, isActive>>

\* logoutService: update({ where: { token }, data: { revokedAt } }); a
\* rejection (no such token) is swallowed.
LogoutService(token) ==
    /\ work = "auth"
    /\ token \in {row.token : row \in refreshToken}
    /\ refreshToken' =
           {IF row.token = token THEN [row EXCEPT !.revokedAt = clock] ELSE row :
               row \in refreshToken}
    /\ refreshToken' # refreshToken
    /\ UNCHANGED <<chatVars, clock, isActive, refresh>>

\* Time passes.
Tick ==
    /\ work = "auth"
    /\ clock < MaxClock
    /\ clock' = clock + 1
    /\ UNCHANGED <<chatVars, isActive, refreshToken, refresh>>

\* The tokens a client may present: forged ones and any token ever issued.
PresentedTokens ==
    {ForgedToken} \cup {signRefreshToken(1, t) : t \in 0..MaxClock}

\* ------------------------------------------------------------ specification
Next ==
    \/ \E r \in Requests, u \in Owners, t \in ThreadNames, q \in Queries \cup GuardQueries :
           StreamChat(r, u, t, q)
    \/ \E r \in Requests : CallModel(r)
    \/ \E r \in Requests : ModelFails(r)
    \/ \E r \in Requests : RecursionLimit(r)
    \/ \E r \in Requests : ToolsNode(r)
    \/ \E r \in Requests : DeleteLookup(r)
    \/ \E r \in Requests : DeleteFinish(r)
    \/ \E r \in Requests : Consume(r)
    \/ \E r \in Requests : StreamEnd(r)
    \/ \E r \in Requests : AfterBreak(r)
    \/ \E r \in Requests : StreamError(r)
    \/ \E r \in Requests : Disconnect(r)
    \/ \E r \in Requests : PersistDone(r)
    \/ \E r \in Requests : PersistFails(r)
    \/ \E u \in Owners, t \in HistoryThreads : DeleteChatHistory(u, t)
    \/ ClearAgentCache
    \/ GetLlm
    \/ ResetLlmInstance
    \/ \E c \in AuthCalls, token \in PresentedTokens : RefreshLookup(c, token)
    \/ \E c \in AuthCalls : RefreshRotate(c)
    \/ \E token \in PresentedTokens : LogoutService(token)
    \/ Tick

Spec == Init /\ [][Next]_vars

\* ------------------------------------------------------------------ helpers
\* The owner on whose behalf a message was produced (request 0: owner 1).
OwnerOf(m) == IF m.turn = 0 THEN 1 ELSE turn[m.turn].userId

Started(r) == turn[r].pc # "idle"
InProgress(r) == run[r].node \in {"callModel", "tools"}

\* The messages and the tool results request r itself added to its thread.
OwnMessages(r) == SelectSeq(run[r].messages, LAMBDA m : m.turn = r)
OwnToolMessages(r) == SelectSeq(OwnMessages(r), LAMBDA m : m.type = "tool")
OwnAssistantMessages(r) == SelectSeq(OwnMessages(r), LAMBDA m : m.type = "ai")

EventsOfType(r, type) == SelectSeq(turn[r].wire, LAMBDA e : e.type = type)
ChunksOfType(r, type) == SelectSeq(run[r].out, LAMBDA c : c.type = type)

\* ----------------------------------------------------------------------- C1
\* Scoped thread identifiers of distinct owners never coincide.
ScopeInjective ==
    \A o1 \in ScopeOwners, o2 \in ScopeOwners :
        o1 # o2 =>
            \A t1 \in ScopeThreadNames, t2 \in ScopeThreadNames :
                scopeThreadId(o1, t1) # scopeThreadId(o2, t2)

\* The scoped identifiers an owner can address.
ScopedIds == [o \in ScopeOwners |-> {scopeThreadId(o, t) : t \in ScopeThreadNames}]
ScopedIdsOf(o) == ScopedIds[o]

\* C1: scoped thread identifiers of distinct owners differ for all raw thread
\* names, and no turn, history read or history delete of one owner reads,
\* appends to or deletes history (checkpointed or persisted) addressed by a
\* scoped identifier of another owner.
C1_ThreadIsolation ==
    /\ ScopeInjective
    \* a checkpointed thread holds messages of a single owner, under an
    \* identifier that is no scoped identifier of another owner
    /\ \A id \in DOMAIN checkpoint :
          \A i \in 1..Len(checkpoint[id]) :
              \A o2 \in Owners \ {OwnerOf(checkpoint[id][i])} : id \notin ScopedIdsOf(o2)
    \* a run reads (loads) and appends to messages of its own owner only
    /\ \A r \in Requests :
          \A i \in 1..Len(run[r].messages) :
              OwnerOf(run[r].messages[i]) = turn[r].userId
    \* every history read and delete an owner can issue touches own rows only
    /\ \A o1 \in Owners, t \in ThreadNames :
          /\ \A n \in HistoryLimits :
                LET rows == getChatHistoryService(chatMessage, o1, scopeThreadId(o1, t), n)
                IN \A i \in 1..Len(rows) :
                       /\ rows[i].userId = o1
                       /\ \A o2 \in Owners \ {o1} : rows[i].threadId \notin ScopedIdsOf(o2)
          /\ LET gone == deleteChatHistoryWhere(chatMessage, o1, t)
             IN \A i \in 1..Len(gone) :
                    /\ gone[i].userId = o1
                    /\ \A o2 \in Owners \ {o1} : gone[i].threadId \notin ScopedIdsOf(o2)

\* Two owners have completed a turn on the same raw thread name and both
\* user messages are stored.
C1_Witness ==
    \E r1 \in Requests, r2 \in Requests :
        /\ turn[r1].userId # turn[r2].userId
        /\ Started(r1) /\ Started(r2)
        /\ turn[r1].threadId = turn[r2].threadId
        /\ run[r1].node = "__end__" /\ run[r2].node = "__end__"
        /\ turn[r1].persist = "stored" /\ turn[r2].persist = "stored"
        /\ Len(chatMessage) = 2

\* ----------------------------------------------------------------------- C2
\* C2: no two turns with the same scoped thread identifier are in progress
\* at the same time.
C2_NoConcurrentTurns ==
    \A r1 \in Requests, r2 \in Requests :
        (r1 # r2 /\ InProgress(r1) /\ InProgress(r2))
            => run[r1].thread_id # run[r2].thread_id

\* ----------------------------------------------------------------------- C3
\* C3: a turn whose final tool result is chart-typed has ended with no model
\* invocation after that result, and when the client received the whole
\* stream its last event is the tool event that carries the chart.
C3_ChartEndsTurn ==
    \A r \in Requests :
        (OwnToolMessages(r) # <<>> /\ IsChart(Last(OwnToolMessages(r)))) =>
            /\ run[r].node = "__end__"
            /\ run[r].sinceTool = 0
            /\ Last(run[r].messages) = Last(OwnToolMessages(r))
            /\ turn[r].outcome = "ended" =>
                  /\ turn[r].wire # <<>>
                  /\ Last(turn[r].wire).type = "tool"
                  /\ Last(turn[r].wire).parsed
                  /\ JsonHas(Last(turn[r].wire).body, "type:chart")

\* A turn of two tool calls, the chart last, has been streamed to the end.
C3_Witness ==
    \E r \in Requests :
        /\ turn[r].outcome = "ended"
        /\ Len(OwnToolMessages(r)) = 2
        /\ IsChart(Last(OwnToolMessages(r)))
        /\ Last(turn[r].wire).type = "tool"

\* ----------------------------------------------------------------------- C4
\* C4: no model invocation is handed a message history that contains a
\* chart-typed tool result.
C4_ChartNeverSentToModel == \A r \in Requests : ~run[r].chartToModel

RECURSIVE FirstCalls(_)
FirstCalls(ms) ==
    IF ms = <<>> THEN <<>>
    ELSE (IF Len(Head(ms).tool_calls) > 0
          THEN <<[name |-> Head(ms).tool_calls[1].name, args |-> Head(ms).tool_calls[1].args]>>
          ELSE <<>>) \o FirstCalls(Tail(ms))

RECURSIVE AnnouncedCalls(_)
AnnouncedCalls(cs) ==
    IF cs = <<>> THEN <<>>
    ELSE <<[name |-> Head(cs).name, args |-> Head(cs).args]>> \o AnnouncedCalls(Tail(cs))

SuccessfulAdds(r) ==
    Len(SelectSeq(OwnToolMessages(r),
                  LAMBDA m : m.name = "add_expense" /\ JsonHas(m.content, "status:success")))

C6_OneModelCallAfterLastTool ==
    \A r \in Requests :
        (/\ run[r].node = "__end__"
         /\ OwnToolMessages(r) # <<>>
         /\ ~IsChart(Last(OwnToolMessages(r)))) => run[r].sinceTool = 1

\* A turn ended after an ordinary tool result and the follow-up reply.
C6_Witness ==
    \E r \in Requests :
        /\ run[r].node = "__end__"
        /\ OwnToolMessages(r) # <<>>
        /\ ~IsChart(Last(OwnToolMessages(r)))
        /\ Last(run[r].messages).type = "ai"
        /\ run[r].modelCalls = 2

\* ----------------------------------------------------------------------- C7
\* The rule sets that match each query of the guard.
RuleSets == [q \in GuardQueries |->
                [allow |-> AllowMatch(Lowered(q)), block |-> BlockMatch(Lowered(q))]]

\* Every combination of matching rule sets occurs among the queries.
RuleSetsCover == {RuleSets[q] : q \in GuardQueries} = [allow : BOOLEAN, block : BOOLEAN]

\* C7: a turn whose latest user message the guard's rules class as off-topic
\* (a block pattern matches, no allow pattern does) invokes no model and no
\* tool, and ends with the fixed redirect as its only assistant message.
C7_OffTopicShortCircuit ==
    \A r \in Requests :
        (Started(r) /\ ~RuleSets[turn[r].query].allow
           /\ RuleSets[turn[r].query].block) =>
            /\ run[r].modelCalls = 0
            /\ run[r].toolRuns = 0
            /\ OwnToolMessages(r) = <<>>
            /\ \/ run[r].node = "callModel" /\ run[r].step = 0
                    /\ OwnAssistantMessages(r) = <<>>
               \/ run[r].node = "__end__"
                    /\ OwnAssistantMessages(r) = <<AIMessage(OFF_TOPIC_REPLY, <<>>, r)>>

\* An off-topic message on a thread whose earlier turn was relevant has been
\* answered with the redirect.
C7_Witness ==
    \E r \in Requests :
        /\ turn[r].query = QPoem
        /\ run[r].node = "__end__"
        /\ Len(run[r].messages) > 2
        /\ Last(run[r].messages).content = OFF_TOPIC_REPLY
        /\ turn[r].outcome = "ended"

\* ----------------------------------------------------------------------- C8
\* C8: when a turn fails while the client is connected, exactly one error
\* event is written, it is the last event of the stream and the response is
\* ended; no stream ever carries an event after an error event.
C8_OneErrorEventLast ==
    \A r \in Requests :
        /\ (turn[r].outcome = "failed" /\ turn[r].isConnected) =>
               /\ Len(EventsOfType(r, "error")) = 1
               /\ Last(turn[r].wire) = ErrorEvent
               /\ turn[r].ended
        /\ \A i \in 1..Len(turn[r].wire) :
               turn[r].wire[i].type = "error" => i = Len(turn[r].wire) /\ turn[r].ended
        /\ turn[r].outcome # "failed" => EventsOfType(r, "error") = <<>>

\* A connected client received a tool event and then the error event of a
\* turn whose second model invocation failed.
C8_Witness ==
    \E r \in Requests :
        /\ turn[r].outcome = "failed" /\ turn[r].isConnected
        /\ run[r].modelCalls = 2
        /\ Len(turn[r].wire) >= 3
        /\ Last(turn[r].wire).type = "error"

\* ----------------------------------------------------------------------- C9
\* C9 as stated: the user message of a turn that aborted on a failure is
\* persisted all the same.
C9_UserMessagePersistedOnFailure ==
    \A r \in Requests : turn[r].outcome = "failed" => turn[r].persist # "none"

\* C9 amended: the user message is handed to the store exactly when the
\* stream loop was left without an exception (the stream ended or the
\* client's disconnect broke the loop); a turn that aborts on a failure
\* records no user message, and a message handed over is stored unless the
\* store rejects it.
C9_UserMessagePersistedOnSuccessOnly ==
    \A r \in Requests :
        /\ turn[r].outcome = "failed" => turn[r].persist = "none"
        /\ (turn[r].pc = "done" /\ turn[r].outcome \in {"ended", "broke"}) =>
               turn[r].persist \in {"pending", "stored", "failed"}
        /\ turn[r].pc # "done" => turn[r].persist = "none"
        /\ Len(chatMessage) <= Cardinality({q \in Requests : turn[q].persist = "stored"})
        /\ \A i \in 1..Len(chatMessage) :
               \E q \in Requests :
                   /\ turn[q].persist = "stored"
                   /\ chatMessage[i] =
                          [userId |-> turn[q].userId,
                           threadId |-> scopeThreadId(turn[q].userId, turn[q].threadId),
                           role |-> "user", content |-> turn[q].query]

\* A turn aborted after a tool had run; nothing was persisted for it.
C9_Witness ==
    \E r \in Requests :
        /\ turn[r].outcome = "failed" /\ turn[r].pc = "done"
        /\ run[r].toolRuns > 0
        /\ turn[r].persist = "none"
        /\ chatMessage = <<>>

\* ---------------------------------------------------------------------- C10
Step(r) ==
    \/ CallModel(r) \/ ModelFails(r) \/ ToolsNode(r) \/ RecursionLimit(r)
    \/ DeleteLookup(r) \/ DeleteFinish(r)

C12_NoEventAfterDisconnect ==
    [][\A r \in Requests :
          /\ (Started(r) /\ ~turn[r].isConnected) => turn'[r].wire = turn[r].wire
          /\ (turn[r].outcome # "failed" /\ turn'[r].outcome = "failed") =>
                 run[r].node = "error"]_vars

\* A disconnected client: some events were relayed before the disconnect,
\* further chunks were produced after it and none of them was written.
C12_Witness ==
    \E r \in Requests :
        /\ ~turn[r].isConnected /\ turn[r].pc = "done"
        /\ turn[r].wire # <<>>
        /\ Len(run[r].out) > turn[r].read + 1
        /\ run[r].node = "__end__"

\* ---------------------------------------------------------------------- C13
\* A turn that completed without failure and without disconnect.
Completed(r) == turn[r].outcome = "ended" /\ turn[r].isConnected

RECURSIVE AllCalls(_)
AllCalls(ms) ==
    IF ms = <<>> THEN <<>> ELSE AnnouncedCalls(Head(ms).tool_calls) \o AllCalls(Tail(ms))

\* The events the loop writes for a sequence of chunks.
RECURSIVE Relay(_)
Relay(chunks) ==
    IF chunks = <<>> THEN <<>> ELSE Translate(Head(chunks)) \o Relay(Tail(chunks))

\* Announcements come before the results of the tools node and the results
\* before the chunk of the follow-up model invocation.
InExecutionOrder(r) ==
    /\ SelectSeq(run[r].out, LAMBDA c : c.mode = "messages") =
           MessageChunks(SelectSeq(OwnMessages(r), LAMBDA m : m.type # "human"))
    /\ \A j \in 1..Len(run[r].out) :
           run[r].out[j].type = "tool" =>
               \E i \in 1..(j - 1) :
                   /\ run[r].out[i].type = "toolCall:start"
                   /\ \A k \in (i + 1)..j : run[r].out[k].type = "tool"

\* C14: every tool execution of a turn is preceded by its own toolCall:start
\* with that tool's name and arguments, the tool results come before any
\* event of the follow-up model invocation, and the client receives the
\* events in the order they were produced.
C14_EveryExecutionAnnounced ==
    \A r \in Requests :
        /\ Len(OwnToolMessages(r)) = Len(AllCalls(OwnAssistantMessages(r))) =>
               AnnouncedCalls(ChunksOfType(r, "toolCall:start")) =
                   AllCalls(OwnAssistantMessages(r))
        /\ InExecutionOrder(r)
        /\ turn[r].wire = Relay(SubSeq(run[r].out, 1, turn[r].read)) \o EventsOfType(r, "error")

\* ---------------------------------------------------------------------- C15
\* The event loop carries out the pending step of every run and the loop of
\* every handler consumes the chunks handed to it.
FairSpec ==
    Spec /\ \A r \in Requests : WF_vars(Step(r)) /\ WF_vars(Consume(r))

\* C15: a turn takes finitely many steps: its supersteps, model invocations,
\* tool executions and events stay within the limit of the graph, and every
\* run that was started reaches __end__ or fails, whatever the model answers.
C15_TurnIsFinite ==
    /\ [](\A r \in Requests :
             /\ run[r].step <= MaxSteps
             /\ run[r].modelCalls <= run[r].step + 1
             /\ run[r].toolRuns <= run[r].step * MaxCalls
             /\ Len(run[r].out) <= 2 * run[r].step * MaxCalls
             /\ Len(turn[r].wire) <= Len(run[r].out) + 1)
    /\ \A r \in Requests : InProgress(r) ~> run[r].node \in {"__end__", "error"}

\* The model answered every invocation with another add_expense call and the
\* turn failed on the limit.
C15_Witness ==
    \E r \in Requests :
        /\ run[r].node = "error" /\ run[r].step = MaxSteps
        /\ turn[r].outcome = "failed"
        /\ \A i \in 1..Len(OwnAssistantMessages(r)) :
               OwnAssistantMessages(r)[i].tool_calls # <<>>
        /\ \A i \in 1..Len(OwnToolMessages(r)) : ~IsChart(OwnToolMessages(r)[i])
        /\ run[r].toolRuns > 0

\* ---------------------------------------------------------------------- C16
\* The step is the tools node of request r; the messages it appended.
ToolStep(r) == run'[r].toolRuns > run[r].toolRuns
Appended(r) == SubSeq(run'[r].messages, Len(run[r].messages) + 1, Len(run'[r].messages))
RowsOf(o, store) == {e \in store.expenses : e.userId = o}

\* The messages the pending step of the tools node of request r delivers on
\* a store: all executions, or the rest of a deletion after its lookup.
Delivers(r, store) ==
    LET calls == Last(run[r].messages).tool_calls
    IN IF run[r].found = "none"
       THEN ToolNode(turn[r].userId, calls, store, r).msgs
       ELSE <<ToolMessage(calls[1].name,
                  deleteExpenseFound(run[r].found, calls[1].args, store).content, r)>>

\* C16: every execution of the tools node for a turn of owner o leaves the
\* expense records of every other owner as they were, creates records of o
\* only, and delivers the results it would deliver were the other owners'
\* records not in the store at all.
C16_ToolsConfinedToOwner ==
    [][\A r \in Requests :
          ToolStep(r) =>
              LET o == turn[r].userId
              IN /\ \A o2 \in Owners \ {o} : RowsOf(o2, db') = RowsOf(o2, db)
                 /\ \A e \in db'.expenses \ db.expenses : e.userId = o
                 /\ Appended(r) = Delivers(r, [db EXCEPT !.expenses = RowsOf(o, db)])]_vars

\* Owner 12 asked for its expenses while owner 1 had one: none was found.
C16_Witness ==
    \E r \in Requests :
        /\ turn[r].userId = 12
        /\ RowsOf(1, db) # {} /\ RowsOf(12, db) = {}
        /\ OwnToolMessages(r) # <<>>
        /\ Last(OwnToolMessages(r)).name = "get_expenses"
        /\ Last(OwnToolMessages(r)).content = JsonObject(<<"message", "data:[]">>)

\* ---------------------------------------------------------------------- C17
NotFound == JsonObject(<<"status:error", "message">>)
DeleteCall(id) == [name |-> "delete_expense", args |-> [NoArgs EXCEPT !.id = id]]
Deletable(o, id) == \E e \in db.expenses : e.id = id /\ e.userId = o

\* The execution of request r that this step completes found no expense id
\* of its owner: in the step itself, or when it looked the expense up.
Missing(r, id) ==
    IF run[r].found = "none" THEN ~Deletable(turn[r].userId, id)
    ELSE run[r].found = "null"

\* C17: delete_expense(id) run for owner o when no expense with that id
\* exists or the expense belongs to another owner returns the not-found
\* payload (not the error text of a thrown exception) and leaves the store
\* unchanged: for every owner and id in every reachable store, and in every
\* execution the tools node carries out.
C17_DeleteNotFound ==
    /\ [](\A o \in Owners, id \in 1..db.nextId :
             ~Deletable(o, id) =>
                 /\ deleteExpense(o, DeleteCall(id).args, db) = [db |-> db, content |-> NotFound]
                 /\ RunTool(o, DeleteCall(id), db) = [db |-> db, content |-> NotFound])
    /\ [][\A r \in Requests :
            (/\ ToolStep(r)
             /\ Last(run[r].messages).tool_calls = <<DelCall>>
             /\ Missing(r, DelCall.args.id)) =>
                /\ db' = db
                /\ Last(run'[r].messages).content = NotFound]_vars

\* Owner 12 asked to delete expense 1, which belongs to owner 1: the result
\* is the not-found payload and the expense is still there.
C17_Witness ==
    \E r \in Requests :
        /\ turn[r].userId = 12
        /\ \E e \in db.expenses : e.id = 1 /\ e.userId = 1
        /\ OwnToolMessages(r) # <<>>
        /\ Last(OwnToolMessages(r)).name = "delete_expense"
        /\ Last(OwnToolMessages(r)).content = NotFound

\* ---------------------------------------------------------------------- C18
\* C18: the registry holds one engine per owner and no engine for two owners;
\* getAgent of a cached owner returns the cached engine, builds none and
\* leaves the registry as it is, so a second getAgent with no
\* clearAgentCache in between returns the engine of the first; entries stay
\* until clearAgentCache removes them all.
C18_OneEnginePerOwner ==
    /\ [](/\ \A o1 \in DOMAIN agentCache, o2 \in DOMAIN agentCache :
                agentCache[o1] = agentCache[o2] => o1 = o2
          /\ \A o \in DOMAIN agentCache : agentCache[o] \in 1..created
          /\ \A o \in Owners :
                LET first == getAgent(agentCache, o, created + 1)
                    second == getAgent(first, o, created + 2)
                IN /\ second = first
                   /\ o \in DOMAIN agentCache => first = agentCache)
    /\ [][/\ \A o \in DOMAIN agentCache :
               \/ agentCache' = << >>
               \/ o \in DOMAIN agentCache' /\ agentCache'[o] = agentCache[o]
          /\ \A r \in Requests :
               (turn[r].pc = "idle" /\ turn'[r].pc # "idle") =>
                   /\ turn'[r].agent = agentCache'[turn'[r].userId]
                   /\ turn'[r].userId \in DOMAIN agentCache =>
                          /\ agentCache' = agentCache /\ created' = created
                          /\ turn'[r].agent = agentCache[turn'[r].userId]
                   /\ turn'[r].userId \notin DOMAIN agentCache =>
                          created' = created + 1 /\ turn'[r].agent = created']_vars

\* Two requests of one owner were served by the same engine, the only one
\* built.
C18_Witness ==
    /\ created = 1
    /\ turn[1].pc = "done" /\ turn[2].pc = "done"
    /\ turn[1].userId = turn[2].userId
    /\ turn[1].agent = turn[2].agent
    /\ DOMAIN agentCache = {turn[1].userId}

\* ---------------------------------------------------------------------- C19
\* C19: after a turn aborted with an error, the history of its thread that
\* the next model invocation reads holds no tool-call request, tool result
\* or reply produced during that turn.
C19_NothingRetainedOnAbort ==
    \A r \in Requests :
        turn[r].outcome = "failed" =>
            \A i \in 1..Len(Saved(run[r].thread_id)) :
                Saved(run[r].thread_id)[i].turn = r =>
                    Saved(run[r].thread_id)[i].type = "human"

\* ---------------------------------------------------------------------- C20
\* A tool execution of the turn raised an exception (schema or store).
ToolRaised(r) ==
    \E i \in 1..Len(OwnToolMessages(r)) : OwnToolMessages(r)[i].content = ToolErrorText

\* C20: an exception raised during a tool execution aborts the turn: no
\* model invocation follows it and a connected client gets one error event.
C20_ToolExceptionAbortsTurn ==
    \A r \in Requests :
        (ToolRaised(r) /\ turn[r].isConnected) =>
            /\ run[r].sinceTool = 0
            /\ turn[r].pc = "done" =>
                   Len(EventsOfType(r, "error")) = 1

\* ---------------------------------------------------------------------- C21
\* The callModel node has classified the user message of request r; what the
\* guard made of it: off_topic is the canned reply without a model invocation.
Classified(r) == run[r].step >= 1
Verdict(r) ==
    IF run[r].modelCalls = 0 /\ OwnAssistantMessages(r)[1].content = OFF_TOPIC_REPLY
    THEN "off_topic" ELSE "relevant"

\* C21: the guard classifies "write me a poem about the ocean" as off_topic.
C21_OceanPoemOffTopic ==
    \A r \in Requests :
        (turn[r].query = QOcean /\ Classified(r)) =>
            ~Relevant[turn[r].query] /\ Verdict(r) = "off_topic"

\* ---------------------------------------------------------------------- C24
\* C24: the guard classifies "hi" and "I spent 500 on groceries" as relevant:
\* the model is invoked with them.
C24_GreetingAndSpendingRelevant ==
    \A r \in Requests :
        (turn[r].query \in {QHi, QSpent} /\ Classified(r)) =>
            /\ Relevant[turn[r].query]
            /\ Verdict(r) = "relevant" /\ run[r].modelCalls >= 1

\* Both inputs were sent, one after the other, and reached the model.
C24_Witness ==
    /\ turn[1].query = QHi /\ turn[2].query = QSpent
    /\ \A r \in Requests :
           Classified(r) /\ Verdict(r) = "relevant" /\ run[r].modelCalls = 1

\* ---------------------------------------------------------------------- C26
\* C26: the verdict depends only on the rule sets that match the lower-cased,
\* trimmed text: relevant if an allow rule matches, whatever the block rules
\* say; off_topic if only block rules match; relevant if none matches.
C26_GuardRuleOrder ==
    /\ RuleSetsCover
    /\ \A r \in Requests :
           (turn[r].query \in GuardQueries /\ Classified(r)) =>
               /\ RuleSets[turn[r].query].allow => Verdict(r) = "relevant"
               /\ (~RuleSets[turn[r].query].allow /\ RuleSets[turn[r].query].block)
                     => Verdict(r) = "off_topic"
               /\ (~RuleSets[turn[r].query].allow /\ ~RuleSets[turn[r].query].block)
                     => Verdict(r) = "relevant"
               /\ \A q \in GuardQueries :
                     RuleSets[q] = RuleSets[turn[r].query] =>
                         Relevant[q] = (Verdict(r) = "relevant")

\* A text that an allow rule and a block rule match was let through, and a
\* text that only a block rule matches was rejected.
C26_Witness ==
    /\ Classified(1) /\ Classified(2)
    /\ RuleSets[turn[1].query] = [allow |-> TRUE, block |-> TRUE]
    /\ Verdict(1) = "relevant"
    /\ RuleSets[turn[2].query] = [allow |-> FALSE, block |-> TRUE]
    /\ Verdict(2) = "off_topic"

\* ---------------------------------------------------------------------- C22
\* All orders of a finite set; the rows of owner o in the period of a call.
RECURSIVE Perms(_)
Perms(S) ==
    IF S = {} THEN {<<>>}
    ELSE UNION {{<<x>> \o p : p \in Perms(S \ {x})} : x \in S}
InPeriod(e, args) == ~Lt(e.date, args.from) /\ ~Lt(args.to, e.date)
RowsInPeriod(o, args) == {e \in db.expenses : e.userId = o /\ InPeriod(e, args)}

\* The tools node of request r executes the calls of the last model response
\* on the store as it is; its i-th call is a valid call of the tool.
ReadStep(r) == ToolStep(r) /\ db' = db
ValidCall(r, i, name) ==
    /\ Last(run[r].messages).tool_calls[i].name = name
    /\ SchemaOk(Last(run[r].messages).tool_calls[i])

\* The content is a chart with one bucket for each key of the rows, the
\* bucket's amount being the rounded sum of the amounts of the rows with that
\* key, the buckets ascending in the order Prec of their keys.
IsChartOf(content, rows, groupBy, Prec(_, _)) ==
    \E keys \in Perms({ChartKey(e, groupBy) : e \in rows}) :
        /\ \A i, j \in 1..Len(keys) : i < j => Prec(keys[i], keys[j])
        /\ content = JsonObject(<<"type:chart", "data">>
                                  \o BucketTokens(keys, rows, groupBy)
                                  \o <<"labelKey", groupBy>>)
NoLowerCase(key) == \A k \in 1..Len(key) : \A j \in 1..26 : Char(key, k) # Char(LowerCase, j)

Wanted(o, args) ==
    {e \in RowsInPeriod(o, args) : args.category # "" => e.category = args.category}
ListOf(rows, total) ==
    JsonObject(<<"data">> \o RowTokens(rows) \o <<"summary", "count">>
                 \o Digits(Len(rows)) \o <<"total">> \o Digits(total))
IsListOf(content, rows, total) ==
    IF rows = {} THEN content = JsonObject(<<"message", "data:[]">>)
    ELSE \E seq \in Perms(rows) :
            /\ \A i, j \in 1..Len(seq) : i < j => ~Lt(seq[i].date, seq[j].date)
            /\ content = ListOf(seq, total)

\* C23 as stated: get_expenses returns the owner's records of the period (of
\* the category, if one is given) by descending date: the no-expenses payload
\* if there are none, else the list, its count and the sum of its amounts.
C23_ListWithSum ==
    [][\A r \in Requests :
          ReadStep(r) =>
              \A i \in 1..Len(Appended(r)) :
                  ValidCall(r, i, "get_expenses") =>
                      \E rows \in {Wanted(turn[r].userId,
                                           Last(run[r].messages).tool_calls[i].args)} :
                          IsListOf(Appended(r)[i].content, rows, Total(rows))]_vars

\* C23 amended: the total is the sum of the amounts rounded to two decimals.
C23_ListWithRoundedSum ==
    [][\A r \in Requests :
          ReadStep(r) =>
              \A i \in 1..Len(Appended(r)) :
                  ValidCall(r, i, "get_expenses") =>
                      \E rows \in {Wanted(turn[r].userId,
                                           Last(run[r].messages).tool_calls[i].args)} :
                          /\ IsListOf(Appended(r)[i].content, rows, Round2(Total(rows)))
                          /\ Round2(Total(rows)) % 10 = 0
                          /\ 2 * (Round2(Total(rows)) - Total(rows)) \in (-9)..10]_vars

\* Two records of 1.006 and 2.003 were listed with the total 3.01.
C23_Witness ==
    \E r \in Requests :
        /\ OwnToolMessages(r) # <<>>
        /\ Last(OwnToolMessages(r)).content =
               ListOf(<<LedgerRows[1], LedgerRows[2]>>, 3010)
        /\ Total({LedgerRows[1], LedgerRows[2]}) = 3009

\* ------------------------------------------------------------------ C25
\* Request n was answered on a thread and its stream has ended; request m
\* starts on the same thread in this step.
StartsAfter(n, m) ==
    /\ turn[n].ended /\ turn[n].outcome = "ended"
    /\ turn[m].pc = "idle" /\ turn'[m].pc = "loop"
    /\ run'[m].thread_id = run[n].thread_id

\* The rows GET /api/chat/history returns for the thread of request n.
HistoryRead(n) ==
    getChatHistoryService(chatMessage, turn[n].userId, run[n].thread_id, 50)

\* C25: when a turn starts on a thread after the stream of an earlier turn on
\* that thread has ended, the messages of the earlier turn are in what the new
\* turn loads, and the user message of the earlier turn is among the rows a
\* history read returns at that moment.
C25_EarlierTurnVisible ==
    [][\A n, m \in Requests :
           StartsAfter(n, m) =>
               /\ \A i \in 1..Len(run[n].messages) :
                      /\ i <= Len(run'[m].messages)
                      /\ run'[m].messages[i] = run[n].messages[i]
               /\ \E i \in 1..Len(HistoryRead(n)) :
                      HistoryRead(n)[i].content = turn[n].query]_vars

\* ------------------------------------------------------------------ C27
\* C27: no two engines of the cache hold different model instances.
C27_OneModelInstance ==
    \A u, v \in DOMAIN agentCache : llm[agentCache[u]] = llm[agentCache[v]]

\* ------------------------------------------------------------------ C28
\* The executions of delete_expense for expense 1 that have returned, as
\* pairs of a request and the position of the tool message.
DeleteResults ==
    {<<r, i>> \in Requests \X (1..MaxSteps) :
        /\ i <= Len(OwnToolMessages(r))
        /\ OwnToolMessages(r)[i].name = "delete_expense"}

\* C28: executions of delete_expense for the same existing expense of one
\* owner, interleaved in any order of their store operations, each return the
\* success payload or the not-found payload (none raises an exception), and
\* exactly one of them reports success.
C28_InterleavedDeletes ==
    (work = "race" /\ DeleteResults # {}) =>
        /\ \A x \in DeleteResults :
               OwnToolMessages(x[1])[x[2]].content \in {DeleteSuccess, DeleteNotFound}
        /\ Cardinality({x \in DeleteResults :
               OwnToolMessages(x[1])[x[2]].content = DeleteSuccess}) = 1

\* ------------------------------------------------------------------ C29
\* The calls that returned a new token pair for the token they were given.
Redeemed(token) ==
    {c \in AuthCalls : refresh[c].result = "tokens" /\ refresh[c].refreshToken = token}

\* The stored token is revoked or expired now.
RevokedOrExpired(token) ==
    \E row \in refreshToken :
        row.token = token /\ (row.revokedAt # Null \/ row.expiresAt < clock)

\* C29: a stored refresh token is redeemed at most once: of the calls of
\* refreshTokenService that present the same token, in any interleaving, at
\* most one returns a new token pair; and a step that redeems a token or
\* stores a new one does so for a token that is neither revoked nor expired.
C29_RedeemedAtMostOnce ==
    /\ [](\A token \in PresentedTokens : Cardinality(Redeemed(token)) <= 1)
    /\ [][\A c \in AuthCalls :
            (refresh[c].pc = "rotate" /\ refresh'[c].pc = "done"
               /\ (refresh'[c].result = "tokens" \/ refreshToken' # refreshToken))
            => ~RevokedOrExpired(refresh[c].refreshToken)]_vars

\* ------------------------------------------------------------------ C30
\* The row persistUserMessage stored for request r.
RowOf(r) ==
    [userId |-> turn[r].userId,
     threadId |-> scopeThreadId(turn[r].userId, turn[r].threadId),
     role |-> "user", content |-> turn[r].query]
Holds(rows, row) == \E i \in 1..Len(rows) : rows[i] = row

\* C30: deleteChatHistory of owner u removes the chat-message rows of u on
\* the scoped thread when a non-empty threadId is given and all rows of u
\* otherwise, keeps every other row (those of other owners among them) in
\* its place, and leaves the checkpoints, the runs and the engines as they
\* are: a turn that starts next on a thread loads the messages it would have
\* loaded before the delete.
C30_DeleteHistoryFrame ==
    [][\A u \in Owners, t \in HistoryThreads :
          DeleteChatHistory(u, t) =>
              /\ chatMessage' = SelectSeq(chatMessage, LAMBDA m :
                     ~(/\ m.userId = u
                       /\ (t.given /\ t.name # <<>>) => m.threadId = scopeThreadId(u, t)))
              /\ \A i \in 1..Len(chatMessage) :
                     chatMessage[i].userId # u => Holds(chatMessage', chatMessage[i])
              /\ checkpoint' = checkpoint
              /\ \A o \in Owners, n \in HistoryThreads :
                     Saved(scopeThreadId(o, n))' = Saved(scopeThreadId(o, n))
              /\ UNCHANGED <<agentCache, run, turn, db>>]_vars

\* The stored user message of one request was deleted while the row of the
\* other request is still there, and the checkpoint of the thread of the
\* deleted row still holds the user message.
C30_Witness ==
    \E r, q \in Requests :
        /\ turn[r].persist = "stored" /\ ~Holds(chatMessage, RowOf(r))
        /\ turn[q].persist = "stored" /\ Holds(chatMessage, RowOf(q))
        /\ \E i \in 1..Len(Saved(run[r].thread_id)) :
               /\ Saved(run[r].thread_id)[i].type = "human"
               /\ Saved(run[r].thread_id)[i].turn = r

====
